---- MODULE Spec2Model ----
(***************************************************************************)
(* AfterCare: the data-access layer of the journaling client.              *)
(*   src/lib/supabase.ts          configuration, memoized client, auth     *)
(*   src/lib/user-helpers.ts      initializeUser (session bootstrap)       *)
(*   src/lib/database-helpers.ts  typed gateways for three tables          *)
(*   src/supabase/migrations/001_initial_schema.sql   tables, keys, RLS    *)
(*   src/lib/database-examples.ts the change subscription for check-ins    *)
(*   src/screens/EventsScreen.tsx the event form and its save handler       *)
(***************************************************************************)
EXTENDS Integers, Sequences, FiniteSets, TLC

(***************************************************************************)
(* Values.  JavaScript null/undefined payloads are the empty tuple and a   *)
(* present payload x is <<x>>; errors are strings, "null" for no error.    *)
(***************************************************************************)
None == << >>
Some(x) == << x >>
NoErr == "null"
Undefined == "undefined"

\* bounds of the model
MaxCreate == 4
MaxIdentities == 2
MaxRows == 2
MaxFaults == 1

(***************************************************************************)
(* Configuration sources: Constants.expoConfig.extra (build-time injected) *)
(* and process.env (the EXPO_PUBLIC variables).  A source is undefined,    *)
(* the empty string, or a value; "not-a-url" is a URL that createClient    *)
(* rejects.                                                                *)
(***************************************************************************)
ExtraUrls == {Undefined, "", "https://extra.supabase.co", "not-a-url"}
EnvUrls == {Undefined, "https://env.supabase.co"}
ExtraKeys == {Undefined, "", "extra-anon-key"}
EnvKeys == {Undefined, "env-anon-key"}

\* JavaScript truthiness of a string | undefined
Truthy(v) == v /= Undefined /\ v /= ""

\* a || b
JsOr(a, b) == IF Truthy(a) THEN a ELSE b

\* supabase.ts 5-9
getSupabaseConfig(c) ==
  [supabaseUrl |-> JsOr(c.extraUrl, c.envUrl),
   supabaseAnonKey |-> JsOr(c.extraKey, c.envKey)]

\* mutant: || instead of && in the configured test
isSupabaseConfigured_either(c) ==
  LET k == getSupabaseConfig(c)
  IN Truthy(k.supabaseUrl) \/ Truthy(k.supabaseAnonKey)

\* supabase.ts 42-45: !!(supabaseUrl && supabaseAnonKey)
isSupabaseConfigured(c) ==
  LET k == getSupabaseConfig(c)
  IN Truthy(k.supabaseUrl) /\ Truthy(k.supabaseAnonKey)

\* createClient (supabase-js) throws on a URL it cannot parse
createClientThrows(url) == url = "not-a-url"

VARIABLES
  config,            \* the four configuration sources (fixed for the process lifetime)
  supabaseClient,    \* supabase.ts 12: the memoized handle, 0 for null
  createCalls,       \* number of createClient invocations so far
  session,           \* the identity of the client's persisted auth session, 0 for none
  authUsers,         \* auth.users: the identities the auth service has issued
  usersInsertPolicy, \* whether the database carries an INSERT policy on public.users
  users,             \* public.users, in insertion order
  tables,            \* public.events, public.check_ins, public.reflections
  nextRowId,         \* the next gen_random_uuid() value
  now,               \* the database clock
  faults,            \* transport faults injected so far
  call,              \* per caller: the initializeUser call in flight or last completed
  last,              \* the last completed single-step call: op, data, error, threw, net
  removedUsers,      \* the identities deleted from auth.users
  realtime,          \* the change subscription for check-ins and what it delivered
  screen             \* EventsScreen: the form, isLoading and the save in flight

vars == << config, supabaseClient, createCalls, session, authUsers, usersInsertPolicy,
           users, tables, nextRowId, now, faults, call, last, removedUsers, realtime,
           screen >>

\* the callers of initializeUser: App.initUser (App.tsx 17-38) and
\* EventsScreen.init (EventsScreen.tsx 32-54)
Procs == {"App", "EventsScreen"}

Tables == {"events", "check_ins", "reflections"}

\* mutant: the incomplete-configuration guard tests && instead of ||
getSupabaseClient_and(client, c, calls) ==
  LET k == getSupabaseConfig(c) IN
  IF client /= 0 THEN [ret |-> client, client |-> client, calls |-> calls, threw |-> FALSE]
  ELSE IF ~Truthy(k.supabaseUrl) /\ ~Truthy(k.supabaseAnonKey)
    THEN [ret |-> 0, client |-> 0, calls |-> calls, threw |-> FALSE]
  ELSE IF createClientThrows(k.supabaseUrl)
    THEN [ret |-> 0, client |-> 0, calls |-> calls + 1, threw |-> FALSE]
  ELSE [ret |-> calls + 1, client |-> calls + 1, calls |-> calls + 1, threw |-> FALSE]

\* mutant: no try/catch around createClient
getSupabaseClient_nocatch(client, c, calls) ==
  LET k == getSupabaseConfig(c) IN
  IF client /= 0 THEN [ret |-> client, client |-> client, calls |-> calls, threw |-> FALSE]
  ELSE IF ~Truthy(k.supabaseUrl) \/ ~Truthy(k.supabaseAnonKey)
    THEN [ret |-> 0, client |-> 0, calls |-> calls, threw |-> FALSE]
  ELSE IF createClientThrows(k.supabaseUrl)
    THEN [ret |-> 0, client |-> 0, calls |-> calls + 1, threw |-> TRUE]
  ELSE [ret |-> calls + 1, client |-> calls + 1, calls |-> calls + 1, threw |-> FALSE]

\* mutant: the memoized handle is not consulted, every call constructs
getSupabaseClient_nomemo(client, c, calls) ==
  LET k == getSupabaseConfig(c) IN
  IF ~Truthy(k.supabaseUrl) \/ ~Truthy(k.supabaseAnonKey)
    THEN [ret |-> 0, client |-> 0, calls |-> calls, threw |-> FALSE]
  ELSE IF createClientThrows(k.supabaseUrl)
    THEN [ret |-> 0, client |-> 0, calls |-> calls + 1, threw |-> FALSE]
  ELSE [ret |-> calls + 1, client |-> calls + 1, calls |-> calls + 1, threw |-> FALSE]

(***************************************************************************)
(* supabase.ts 14-39.  client is the memoized handle, calls the number of   *)
(* createClient invocations so far; each createClient call yields a new    *)
(* object, named by its invocation number.  The result gives the returned  *)
(* handle, the memo afterwards, the invocation count and whether the call  *)
(* raised.                                                                 *)
(***************************************************************************)
getSupabaseClient(client, c, calls) ==
  LET k == getSupabaseConfig(c) IN
  IF client /= 0 THEN [ret |-> client, client |-> client, calls |-> calls, threw |-> FALSE]
  ELSE IF ~Truthy(k.supabaseUrl) \/ ~Truthy(k.supabaseAnonKey)
    THEN [ret |-> 0, client |-> 0, calls |-> calls, threw |-> FALSE]
  ELSE IF createClientThrows(k.supabaseUrl)
    THEN [ret |-> 0, client |-> 0, calls |-> calls + 1, threw |-> FALSE]
  ELSE [ret |-> calls + 1, client |-> calls + 1, calls |-> calls + 1, threw |-> FALSE]

\* the result of the last single-step call has been taken by its caller
Ready == last.op = "none"

\* a call may construct only while the model's invocation bound allows it
CanCall == Ready /\ (supabaseClient /= 0 \/ createCalls < MaxCreate)

(***************************************************************************)
(* Errors, by message or code.                                             *)
(***************************************************************************)
\* database-helpers.ts 31-33 (SUPABASE_NOT_CONFIGURED_ERROR), supabase.ts 64
ErrNotConfigured ==
  "Supabase is not configured. Please set EXPO_PUBLIC_SUPABASE_URL and EXPO_PUBLIC_SUPABASE_ANON_KEY."
\* supabase.ts 94, 112; user-helpers.ts 48
ErrNotConfiguredShort == "Supabase is not configured"
ErrUserIdNotFound == "User ID not found"
ErrSessionMissing == "Auth session missing!"
ErrBackend == "error returned by the backend"
ErrThrown == "Error thrown during the call"
ErrRls == "42501 new row violates row-level security policy"
ErrUnique == "23505 duplicate key value violates unique constraint"
ErrForeignKey == "23503 violates foreign key constraint"
ErrCheck == "23514 violates check constraint"
ErrNoRows == "PGRST116 JSON object requested, multiple (or no) rows returned"

\* error?.message?.includes('not configured')
IncludesNotConfigured(e) == e \in {ErrNotConfigured, ErrNotConfiguredShort}

(***************************************************************************)
(* Faults of one round trip: none, an error returned by the backend        *)
(* client, an Error thrown during the call, or a falsy value thrown.       *)
(***************************************************************************)
FaultKinds == {"error", "throw", "throwFalsy"}
Outcomes == {"none"} \cup FaultKinds

\* what a catch block binds, and what `error || { message: m }` makes of it
Caught(f) == IF f = "throwFalsy" THEN NoErr ELSE ErrThrown
OrFallback(e, m) == IF e = NoErr THEN m ELSE e

(***************************************************************************)
(* The database of migrations/001_initial_schema.sql.  uid is auth.uid()   *)
(* of the request, 0 for a request without a session.                      *)
(***************************************************************************)
\* 53-55: "Users can view their own data" USING (auth.uid() = id)
UsersSelectPolicy(uid, row) == uid /= 0 /\ uid = row.id

\* 46-59: row-level security is enabled on public.users and the migration
\* creates policies FOR SELECT and FOR UPDATE only, so an INSERT passes only
\* where the database carries the policy supabase/README.md 66-67 documents
\* ("Users can only view, create, update, and delete their own data").
UsersInsertPolicy(policy, uid, row) == policy /\ uid /= 0 /\ uid = row.id

\* mutant: the primary key of public.users is not enforced
UsersPrimaryKeyOff(tbl, id) == TRUE

\* 4: id ... PRIMARY KEY
UsersPrimaryKeyFree(tbl, id) == \A i \in 1..Len(tbl) : tbl[i].id /= id

\* 4: id UUID REFERENCES auth.users(id)
UsersForeignKeyOk(auth, id) == id \in auth

\* .single(): exactly one row, or PGRST116
Single(rows) ==
  IF Len(rows) = 1 THEN [data |-> Some(rows[1]), error |-> NoErr]
  ELSE [data |-> None, error |-> ErrNoRows]

\* user-helpers.ts 51-55: from('users').select('*').eq('id', userId).single()
SelectUser(tbl, uid, userId) ==
  Single(SelectSeq(tbl, LAMBDA r : r.id = userId /\ UsersSelectPolicy(uid, r)))

\* user-helpers.ts 67-71: from('users').insert({ id }).select().single();
\* the checks in PostgreSQL's order: row security, unique index, foreign key
InsertUser(tbl, policy, auth, uid, userId, t) ==
  LET row == [id |-> userId, created_at |-> t, updated_at |-> t] IN
  IF ~UsersInsertPolicy(policy, uid, row)
    THEN [data |-> None, error |-> ErrRls, tbl |-> tbl]
  ELSE IF ~UsersPrimaryKeyFree(tbl, userId)
    THEN [data |-> None, error |-> ErrUnique, tbl |-> tbl]
  ELSE IF ~UsersForeignKeyOk(auth, userId)
    THEN [data |-> None, error |-> ErrForeignKey, tbl |-> tbl]
  ELSE [data |-> Some(row), error |-> NoErr, tbl |-> Append(tbl, row)]

(***************************************************************************)
(* The auth helpers of supabase.ts.  cl is what getSupabaseClient gave the *)
(* helper (0 for null, -1 when it raised), s the client's session, f the   *)
(* outcome of the round trip.  net counts the requests the helper issued.  *)
(***************************************************************************)
\* supabase.ts 88-105
getCurrentUser(cl, s, f) ==
  IF cl = -1 THEN [user |-> 0, error |-> ErrThrown, net |-> 0]
  ELSE IF cl = 0 THEN [user |-> 0, error |-> ErrNotConfiguredShort, net |-> 0]
  ELSE IF f = "error" THEN [user |-> 0, error |-> ErrBackend, net |-> 1]
  ELSE IF f \in {"throw", "throwFalsy"}
    THEN [user |-> 0, error |-> OrFallback(Caught(f), "Failed to get user"), net |-> 1]
  ELSE IF s = 0 THEN [user |-> 0, error |-> ErrSessionMissing, net |-> 1]
  ELSE [user |-> s, error |-> NoErr, net |-> 1]

\* supabase.ts 57-85; newId is the identity the auth service issues on success
signInAnonymously(cl, f, newId) ==
  IF cl = -1 THEN [user |-> 0, error |-> ErrThrown, net |-> 0]
  ELSE IF cl = 0 THEN [user |-> 0, error |-> ErrNotConfigured, net |-> 0]
  ELSE IF f = "error" THEN [user |-> 0, error |-> ErrBackend, net |-> 1]
  ELSE IF f \in {"throw", "throwFalsy"}
    THEN [user |-> 0, error |-> OrFallback(Caught(f), "Failed to sign in anonymously"),
          net |-> 1]
  ELSE [user |-> newId, error |-> NoErr, net |-> 1]

\* supabase.ts 108-127
signOut(cl, f) ==
  IF cl = -1 THEN [error |-> ErrThrown, net |-> 0]
  ELSE IF cl = 0 THEN [error |-> ErrNotConfiguredShort, net |-> 0]
  ELSE IF f = "error" THEN [error |-> ErrBackend, net |-> 1]
  ELSE IF f \in {"throw", "throwFalsy"}
    THEN [error |-> OrFallback(Caught(f), "Failed to sign out"), net |-> 1]
  ELSE [error |-> NoErr, net |-> 1]

\* auth.users as it is now
AuthUsersNow == authUsers \ removedUsers

\* the identity client.auth.getUser() finds for the session: the auth service
\* looks the session's user up and finds none once the identity is deleted
Known(s) == IF s \in removedUsers THEN 0 ELSE s

\* the handle a helper works with: what getSupabaseClient returned, -1 if it raised
Handle(r) == IF r.threw THEN -1 ELSE r.ret

\* a helper without a handle makes no round trip, so none can fail; the model
\* injects at most MaxFaults faults
FaultOk(cl, f) ==
  /\ cl <= 0 => f = "none"
  /\ f /= "none" => faults < MaxFaults

Spend(f) == IF f = "none" THEN faults ELSE faults + 1

(***************************************************************************)
(* initializeUser, user-helpers.ts 14-87, one action per await: the action *)
(* is the awaited round trip completing and the code running on to the     *)
(* next await or to its return.                                            *)
(***************************************************************************)
\* Beside the locals and the result of the call, a call record keeps what the
\* properties read: noRow (the lookup answered with no row), inserts (insert
\* requests issued), insertError and insertUid (the answer to the insert and the
\* auth.uid() it ran under), net (requests issued), faulted (a round trip
\* failed), solo (no other call of initializeUser was in flight during this one),
\* signInFailed (the call asked for an anonymous identity and got none), reads
\* (lookup requests issued), created (the anonymous identity the call's sign-in
\* made).
IdleCall ==
  [pc |-> "idle", client |-> 0, authError |-> NoErr, userId |-> 0,
   data |-> None, error |-> NoErr, threw |-> FALSE,
   noRow |-> FALSE, inserts |-> 0, insertError |-> NoErr, insertUid |-> 0,
   net |-> 0, faulted |-> FALSE, solo |-> TRUE, signInFailed |-> FALSE,
   reads |-> 0, created |-> 0]

\* a return of initializeUser; its locals die with it
Return(c, data, error) ==
  [c EXCEPT !.pc = "done", !.data = data, !.error = error,
            !.client = 0, !.authError = NoErr]

\* mutant: the catch block rethrows
Catch_rethrow(c, e) ==
  [c EXCEPT !.pc = "done", !.threw = TRUE, !.client = 0, !.authError = NoErr]

\* user-helpers.ts 79-86: the catch block of initializeUser, e the value caught
Catch(c, e) ==
  IF IncludesNotConfigured(e) THEN Return(c, None, NoErr) ELSE Return(c, None, e)

\* user-helpers.ts 41-55: with userId resolved, getSupabase() and the lookup request
ToSelect(c, userId, r) ==
  IF userId = 0 THEN Return(c, None, ErrUserIdNotFound)
  ELSE IF r.threw THEN Catch([c EXCEPT !.userId = userId], ErrThrown)
  ELSE IF r.ret = 0 THEN Return([c EXCEPT !.userId = userId], None, ErrNotConfiguredShort)
  ELSE [c EXCEPT !.pc = "select", !.userId = userId, !.client = r.ret, !.net = @ + 1,
                 !.reads = @ + 1]

InFlight(q) == call[q].pc \notin {"idle", "done"}

\* caller p begins the call c beside the calls already in flight
Begin(p, c) ==
  [q \in Procs |->
     IF q = p THEN [c EXCEPT !.solo = \A o \in Procs \ {p} : ~InFlight(o)]
     ELSE IF InFlight(q) THEN [call[q] EXCEPT !.solo = FALSE]
     ELSE call[q]]

\* mutant: the configuration check is skipped
iuStart_nocheck(p) ==
  /\ call[p].pc \in {"idle", "done"}
  /\ CanCall
  /\ LET r == getSupabaseClient(supabaseClient, config, createCalls) IN
       /\ supabaseClient' = r.client
       /\ createCalls' = r.calls
       /\ call' = Begin(p, [IdleCall EXCEPT !.pc = "getUser1", !.client = Handle(r)])
  /\ UNCHANGED << config, removedUsers, realtime, screen,
                  session, authUsers, usersInsertPolicy, users, tables,
                  nextRowId, now, faults, last >>

\* user-helpers.ts 15-23: the configuration check and the call of getCurrentUser
iuStart(p) ==
  /\ call[p].pc \in {"idle", "done"}
  /\ CanCall
  /\ IF ~isSupabaseConfigured(config)
       THEN /\ call' = Begin(p, Return(IdleCall, None, NoErr))
            /\ UNCHANGED << supabaseClient, createCalls >>
       ELSE LET r == getSupabaseClient(supabaseClient, config, createCalls) IN
            /\ supabaseClient' = r.client
            /\ createCalls' = r.calls
            /\ call' = Begin(p, [IdleCall EXCEPT !.pc = "getUser1", !.client = Handle(r)])
  /\ UNCHANGED << config, removedUsers, realtime, screen,
                  session, authUsers, usersInsertPolicy, users, tables,
                  nextRowId, now, faults, last >>

\* user-helpers.ts 23-27, 39-55: getCurrentUser resolves; sign in, or look the user up
iuGetUser1(p) ==
  /\ call[p].pc = "getUser1"
  /\ CanCall
  /\ \E f \in Outcomes :
       /\ FaultOk(call[p].client, f)
       /\ faults' = Spend(f)
       /\ LET g == getCurrentUser(call[p].client, Known(session), f)
              r == getSupabaseClient(supabaseClient, config, createCalls)
              c == [call[p] EXCEPT !.net = @ + g.net, !.faulted = @ \/ f /= "none"]
          IN /\ supabaseClient' = r.client
             /\ createCalls' = r.calls
             /\ call' = [call EXCEPT ![p] =
                  IF g.error /= NoErr \/ g.user = 0
                    THEN [c EXCEPT !.pc = "signIn", !.client = Handle(r),
                                   !.authError = g.error]
                    ELSE ToSelect(c, g.user, r)]
  /\ UNCHANGED << config, removedUsers, realtime, screen,
                  session, authUsers, usersInsertPolicy, users, tables,
                  nextRowId, now, last >>

\* user-helpers.ts 27-39: signInAnonymously resolves; return, or ask who the user is
iuSignIn(p) ==
  /\ call[p].pc = "signIn"
  /\ CanCall
  /\ \E f \in Outcomes :
       /\ FaultOk(call[p].client, f)
       /\ faults' = Spend(f)
       /\ LET newId == Cardinality(authUsers) + 1
              sres == signInAnonymously(call[p].client, f, newId)
              r == getSupabaseClient(supabaseClient, config, createCalls)
              c == [call[p] EXCEPT !.net = @ + sres.net, !.faulted = @ \/ f /= "none",
                                   !.signInFailed = (sres.error /= NoErr \/ sres.user = 0)]
          IN /\ sres.user /= 0 => newId <= MaxIdentities
             /\ IF sres.error /= NoErr \/ sres.user = 0
                  THEN /\ call' = [call EXCEPT ![p] =
                            IF IncludesNotConfigured(sres.error)
                              THEN Return(c, None, NoErr)
                              ELSE Return(c, None, OrFallback(sres.error, c.authError))]
                       /\ UNCHANGED << supabaseClient, createCalls, session, authUsers >>
                  ELSE /\ authUsers' = authUsers \cup {newId}
                       /\ session' = newId
                       /\ supabaseClient' = r.client
                       /\ createCalls' = r.calls
                       /\ call' = [call EXCEPT ![p] =
                            [c EXCEPT !.pc = "getUser2", !.client = Handle(r),
                                      !.authError = NoErr, !.created = newId]]
  /\ UNCHANGED << config, removedUsers, realtime, screen,
                  usersInsertPolicy, users, tables, nextRowId, now, last >>

\* user-helpers.ts 39-55: the second getCurrentUser resolves
iuGetUser2(p) ==
  /\ call[p].pc = "getUser2"
  /\ CanCall
  /\ \E f \in Outcomes :
       /\ FaultOk(call[p].client, f)
       /\ faults' = Spend(f)
       /\ LET g == getCurrentUser(call[p].client, Known(session), f)
              r == getSupabaseClient(supabaseClient, config, createCalls)
              c == [call[p] EXCEPT !.net = @ + g.net, !.faulted = @ \/ f /= "none"]
          IN /\ supabaseClient' = IF g.user = 0 THEN supabaseClient ELSE r.client
             /\ createCalls' = IF g.user = 0 THEN createCalls ELSE r.calls
             /\ call' = [call EXCEPT ![p] = ToSelect(c, g.user, r)]
  /\ UNCHANGED << config, removedUsers, realtime, screen,
                  session, authUsers, usersInsertPolicy, users, tables,
                  nextRowId, now, last >>

\* mutant: a row that is found is written back (an upsert), which renews updated_at
iuSelect_touch(p) ==
  /\ call[p].pc = "select"
  /\ Ready
  /\ \E f \in Outcomes :
       /\ FaultOk(call[p].client, f)
       /\ faults' = Spend(f)
       /\ LET sres == SelectUser(users, session, call[p].userId)
              c == [call[p] EXCEPT !.faulted = @ \/ f /= "none"]
              found == f = "none" /\ sres.data /= None
          IN /\ call' = [call EXCEPT ![p] =
                  IF f \in {"throw", "throwFalsy"} THEN Catch(c, Caught(f))
                  ELSE IF found THEN Return(c, sres.data, NoErr)
                  ELSE [c EXCEPT !.pc = "insert", !.noRow = (f = "none"),
                                 !.inserts = @ + 1, !.net = @ + 1]]
             /\ users' = IF found
                  THEN [i \in 1..Len(users) |->
                          IF users[i].id = call[p].userId
                            THEN [users[i] EXCEPT !.updated_at = now] ELSE users[i]]
                  ELSE users
  /\ UNCHANGED << config, removedUsers, realtime, screen,
                  supabaseClient, createCalls, session, authUsers,
                  usersInsertPolicy, tables, nextRowId, now, last >>

\* user-helpers.ts 51-71: the lookup resolves; return the row, or request the insert
iuSelect(p) ==
  /\ call[p].pc = "select"
  /\ Ready
  /\ \E f \in Outcomes :
       /\ FaultOk(call[p].client, f)
       /\ faults' = Spend(f)
       /\ LET sres == SelectUser(users, session, call[p].userId)
              c == [call[p] EXCEPT !.faulted = @ \/ f /= "none"]
          IN call' = [call EXCEPT ![p] =
               IF f \in {"throw", "throwFalsy"} THEN Catch(c, Caught(f))
               ELSE IF f = "none" /\ sres.data /= None THEN Return(c, sres.data, NoErr)
               ELSE [c EXCEPT !.pc = "insert", !.noRow = (f = "none"),
                              !.inserts = @ + 1, !.net = @ + 1]]
  /\ UNCHANGED << config, removedUsers, realtime, screen,
                  supabaseClient, createCalls, session, authUsers,
                  usersInsertPolicy, users, tables, nextRowId, now, last >>

\* user-helpers.ts 67-78: the insert resolves
iuInsert(p) ==
  /\ call[p].pc = "insert"
  /\ Ready
  /\ \E f \in Outcomes :
       /\ FaultOk(call[p].client, f)
       /\ faults' = Spend(f)
       /\ LET ires == InsertUser(users, usersInsertPolicy, AuthUsersNow, session,
                                 call[p].userId, now)
              c == [call[p] EXCEPT !.faulted = @ \/ f /= "none",
                                   !.insertUid = IF f = "none" THEN session ELSE 0]
          IN IF f = "none"
               THEN /\ users' = ires.tbl
                    /\ now' = IF ires.error = NoErr THEN now + 1 ELSE now
                    /\ call' = [call EXCEPT ![p] =
                         IF ires.error /= NoErr
                           THEN Return([c EXCEPT !.insertError = ires.error], None, ires.error)
                           ELSE Return(c, ires.data, NoErr)]
               ELSE /\ UNCHANGED << users, now >>
                    /\ call' = [call EXCEPT ![p] =
                         IF f = "error" THEN Return(c, None, ErrBackend)
                         ELSE Catch(c, Caught(f))]
  /\ UNCHANGED << config, removedUsers, realtime, screen,
                  supabaseClient, createCalls, session, authUsers,
                  usersInsertPolicy, tables, nextRowId, last >>

\* App.tsx 25-29: the caller has looked at the result of its call
iuTaken(p) ==
  /\ call[p].pc = "done"
  /\ call' = [call EXCEPT ![p] = IdleCall]
  /\ UNCHANGED << config, removedUsers, realtime, screen,
                  supabaseClient, createCalls, session, authUsers,
                  usersInsertPolicy, users, tables, nextRowId, now, faults, last >>

initializeUser(p) ==
  \/ iuStart(p)
  \/ iuGetUser1(p)
  \/ iuSignIn(p)
  \/ iuGetUser2(p)
  \/ iuSelect(p)
  \/ iuInsert(p)

(***************************************************************************)
(* The provider and the auth helpers called on their own.                  *)
(***************************************************************************)
\* what a single-step call returned: its { data, error }, whether it raised, the
\* requests it issued, and whether anything failed on its way (no handle, a failed
\* round trip, an error answered by the backend)
Result(op, data, error, threw, net, fault) ==
  [op |-> op, data |-> data, error |-> error, threw |-> threw, net |-> net,
   fault |-> fault, arg |-> << >>]

NoResult == Result("none", None, NoErr, FALSE, 0, FALSE)

\* supabase.ts 48-50
callGetSupabase ==
  /\ CanCall
  /\ LET r == getSupabaseClient(supabaseClient, config, createCalls) IN
       /\ supabaseClient' = r.client
       /\ createCalls' = r.calls
       /\ last' = Result("getSupabase", IF r.ret = 0 THEN None ELSE Some(r.ret),
                         NoErr, r.threw, 0, r.ret = 0)
  /\ UNCHANGED << config, removedUsers, realtime, screen,
                  session, authUsers, usersInsertPolicy, users, tables,
                  nextRowId, now, faults, call >>

\* supabase.ts 42-45
callIsSupabaseConfigured ==
  /\ Ready
  /\ last' = Result("isSupabaseConfigured", Some(isSupabaseConfigured(config)),
                    NoErr, FALSE, 0, FALSE)
  /\ UNCHANGED << config, removedUsers, realtime, screen,
                  supabaseClient, createCalls, session, authUsers,
                  usersInsertPolicy, users, tables, nextRowId, now, faults, call >>

\* supabase.ts 57-85 called by itself
callSignInAnonymously ==
  /\ CanCall
  /\ \E f \in Outcomes :
       LET r == getSupabaseClient(supabaseClient, config, createCalls)
           newId == Cardinality(authUsers) + 1
           sres == signInAnonymously(Handle(r), f, newId)
       IN /\ FaultOk(Handle(r), f)
          /\ faults' = Spend(f)
          /\ sres.user /= 0 => newId <= MaxIdentities
          /\ supabaseClient' = r.client
          /\ createCalls' = r.calls
          /\ authUsers' = IF sres.user = 0 THEN authUsers ELSE authUsers \cup {newId}
          /\ session' = IF sres.user = 0 THEN session ELSE newId
          /\ last' = Result("signInAnonymously",
                            IF sres.user = 0 THEN None ELSE Some(sres.user),
                            sres.error, FALSE, sres.net, sres.user = 0)
  /\ UNCHANGED << config, removedUsers, realtime, screen,
                  usersInsertPolicy, users, tables, nextRowId, now, call >>

\* supabase.ts 88-105 called by itself
callGetCurrentUser ==
  /\ CanCall
  /\ \E f \in Outcomes :
       LET r == getSupabaseClient(supabaseClient, config, createCalls)
           g == getCurrentUser(Handle(r), Known(session), f)
       IN /\ FaultOk(Handle(r), f)
          /\ faults' = Spend(f)
          /\ supabaseClient' = r.client
          /\ createCalls' = r.calls
          /\ last' = Result("getCurrentUser", IF g.user = 0 THEN None ELSE Some(g.user),
                            g.error, FALSE, g.net, Handle(r) <= 0 \/ f /= "none")
  /\ UNCHANGED << config, removedUsers, realtime, screen,
                  session, authUsers, usersInsertPolicy, users, tables,
                  nextRowId, now, call >>

\* supabase.ts 108-127 called by itself; a sign-out that succeeds ends the session
callSignOut ==
  /\ CanCall
  /\ \E f \in Outcomes :
       LET r == getSupabaseClient(supabaseClient, config, createCalls)
           o == signOut(Handle(r), f)
       IN /\ FaultOk(Handle(r), f)
          /\ faults' = Spend(f)
          /\ supabaseClient' = r.client
          /\ createCalls' = r.calls
          /\ session' = IF o.error = NoErr THEN 0 ELSE session
          /\ last' = Result("signOut", None, o.error, FALSE, o.net,
                            Handle(r) <= 0 \/ f /= "none")
  /\ UNCHANGED << config, removedUsers, realtime, screen,
                  authUsers, usersInsertPolicy, users, tables, nextRowId,
                  now, call >>

\* user-helpers.ts 92-121: g is what getCurrentUser answered, r the provider's
\* answer to getSupabase(), f the outcome of the lookup's round trip, sres the
\* backend's answer to the lookup
getUserRecord(g, r, f, sres) ==
  IF g.error /= NoErr \/ g.user = 0
    THEN [data |-> None, error |-> OrFallback(g.error, "User not authenticated"),
          threw |-> FALSE, net |-> g.net]
  ELSE IF r.threw
    THEN [data |-> None, error |-> ErrThrown, threw |-> FALSE, net |-> g.net]
  ELSE IF r.ret = 0
    THEN [data |-> None, error |-> ErrNotConfiguredShort, threw |-> FALSE, net |-> g.net]
  ELSE IF f = "error"
    THEN [data |-> None, error |-> ErrBackend, threw |-> FALSE, net |-> g.net + 1]
  ELSE IF f \in {"throw", "throwFalsy"}
    THEN [data |-> None, error |-> Caught(f), threw |-> FALSE, net |-> g.net + 1]
  ELSE IF sres.error /= NoErr
    THEN [data |-> None, error |-> sres.error, threw |-> FALSE, net |-> g.net + 1]
  ELSE [data |-> sres.data, error |-> NoErr, threw |-> FALSE, net |-> g.net + 1]

\* user-helpers.ts 92-121 called by itself: f1 is the outcome of getCurrentUser's
\* round trip, f2 of the lookup's, which is made only after getCurrentUser gave
\* a user
callGetUserRecord ==
  /\ CanCall
  /\ \E f1 \in Outcomes, f2 \in Outcomes :
       LET r1 == getSupabaseClient(supabaseClient, config, createCalls)
           g == getCurrentUser(Handle(r1), Known(session), f1)
           gaveUser == g.error = NoErr /\ g.user /= 0
           r2 == IF gaveUser THEN getSupabaseClient(r1.client, config, r1.calls) ELSE r1
           sres == SelectUser(users, session, g.user)
           o == getUserRecord(g, r2, f2, sres)
       IN /\ FaultOk(Handle(r1), f1)
          /\ IF gaveUser THEN FaultOk(Handle(r2), f2) ELSE f2 = "none"
          /\ faults' = IF f1 /= "none" \/ f2 /= "none" THEN faults + 1 ELSE faults
          /\ supabaseClient' = r2.client
          /\ createCalls' = r2.calls
          /\ last' = Result("getUserRecord", o.data, o.error, o.threw, o.net,
                            o.error /= NoErr)
  /\ UNCHANGED << config, removedUsers, realtime, screen,
                  session, authUsers, usersInsertPolicy, users, tables,
                  nextRowId, now, call >>

\* the caller of a single-step call takes the { data, error } it returned
\* (as EventsScreen.tsx 90-97 does with createEvent's)
Returned ==
  /\ ~Ready
  /\ last' = NoResult
  /\ UNCHANGED << config, removedUsers, realtime, screen,
                  supabaseClient, createCalls, session, authUsers,
                  usersInsertPolicy, users, tables, nextRowId, now, faults, call >>

(***************************************************************************)
(* The three owned tables of the migration.  A row is id, user_id, one     *)
(* checked value val (importance as 1..3 for events, energy for check_ins, *)
(* the length of content for reflections), time (the nullable time of an   *)
(* event, 0 for null; the timestamp of a check-in; 0 for a reflection,     *)
(* which has no such column) and created_at.  creator records the          *)
(* auth.uid() of the request that inserted the row.                        *)
(***************************************************************************)
\* the values callers pass: importance, energy, char_length(content)
Vals(t) == IF t = "check_ins" THEN {0, 1, 10, 11} ELSE {0, 1}
\* the times callers pass: 0 is time: null for an event and an omitted timestamp
\* for a check-in
Times(t) == IF t = "reflections" THEN {0} ELSE {0, 1}
Limits == {-1, 0, 1}   \* -1: the limit argument is omitted

\* mutant: row-level security is off
RowPolicy_off(uid, row) == TRUE

\* 61-110: every policy on the three tables is auth.uid() = user_id
RowPolicy(uid, row) == uid /= 0 /\ uid = row.user_id

\* mutant: the CHECK constraints are missing
ValueOk_off(t, v) == TRUE

\* mutant: public.reflections lacks CHECK (char_length(content) > 0)
ValueOk_nocontent(t, v) ==
  CASE t = "events" -> v \in 1..3
    [] t = "check_ins" -> v >= 1 /\ v <= 10
    [] t = "reflections" -> TRUE

\* 15: importance IN ('low','medium','high'); 24: energy >= 1 AND energy <= 10;
\* 34: char_length(content) > 0
ValueOk(t, v) ==
  CASE t = "events" -> v \in 1..3
    [] t = "check_ins" -> v >= 1 /\ v <= 10
    [] t = "reflections" -> v > 0

\* 12, 22, 33: user_id UUID REFERENCES public.users(id)
OwnerExists(usersTbl, id) == \E i \in 1..Len(usersTbl) : usersTbl[i].id = id

\* the column a list is ordered by: database-helpers.ts 72, 290 (created_at), 181
\* (timestamp)
OrderKey(t, r) == IF t = "check_ins" THEN r.time ELSE r.created_at

RECURSIVE InsertDesc(_, _, _)
InsertDesc(t, r, sorted) ==
  IF sorted = << >> THEN << r >>
  ELSE IF OrderKey(t, r) >= OrderKey(t, Head(sorted)) THEN << r >> \o sorted
  ELSE << Head(sorted) >> \o InsertDesc(t, r, Tail(sorted))

\* .order(column, { ascending: false })
RECURSIVE OrderDesc(_, _)
OrderDesc(t, rows) ==
  IF rows = << >> THEN << >> ELSE InsertDesc(t, Head(rows), OrderDesc(t, Tail(rows)))

Take(rows, n) == SubSeq(rows, 1, IF n < Len(rows) THEN n ELSE Len(rows))

\* mutant: the time column is not written
InsertRow_notime(t, tbl, usersTbl, uid, payload, id, at) ==
  LET row == [id |-> id, user_id |-> payload.user_id, val |-> payload.val,
              time |-> IF t = "check_ins" THEN at ELSE 0,
              created_at |-> at, creator |-> uid] IN
  IF ~RowPolicy(uid, row) THEN [data |-> None, error |-> ErrRls, tbl |-> tbl]
  ELSE IF ~ValueOk(t, row.val) THEN [data |-> None, error |-> ErrCheck, tbl |-> tbl]
  ELSE IF ~OwnerExists(usersTbl, row.user_id)
    THEN [data |-> None, error |-> ErrForeignKey, tbl |-> tbl]
  ELSE [data |-> Some(row), error |-> NoErr, tbl |-> Append(tbl, row)]

\* insert(payload).select().single(): row security, checks, foreign key
InsertRow(t, tbl, usersTbl, uid, payload, id, at) ==
  LET row == [id |-> id, user_id |-> payload.user_id, val |-> payload.val,
              time |-> IF t = "check_ins" /\ payload.time = 0 THEN at ELSE payload.time,
              created_at |-> at, creator |-> uid] IN
  IF ~RowPolicy(uid, row) THEN [data |-> None, error |-> ErrRls, tbl |-> tbl]
  ELSE IF ~ValueOk(t, row.val) THEN [data |-> None, error |-> ErrCheck, tbl |-> tbl]
  ELSE IF ~OwnerExists(usersTbl, row.user_id)
    THEN [data |-> None, error |-> ErrForeignKey, tbl |-> tbl]
  ELSE [data |-> Some(row), error |-> NoErr, tbl |-> Append(tbl, row)]

\* select('*').order(...) and, if (limit), .limit(limit)
ListRows(t, tbl, uid, limit) ==
  LET visible == OrderDesc(t, SelectSeq(tbl, LAMBDA r : RowPolicy(uid, r))) IN
  [data |-> Some(IF limit = -1 \/ limit = 0 THEN visible ELSE Take(visible, limit)),
   error |-> NoErr, tbl |-> tbl]

\* mutant: the columns the payload leaves out are written as null
Merge_nulling(row, updates) ==
  [row EXCEPT !.user_id = IF updates.user_id = 0 THEN @ ELSE updates.user_id,
              !.val = IF updates.val = -1 THEN 0 ELSE updates.val,
              !.time = IF updates.time = -1 THEN 0 ELSE updates.time]

\* a partial payload: 0 for a user_id left out, -1 for a value or a time left out
Merge(row, updates) ==
  [row EXCEPT !.user_id = IF updates.user_id = 0 THEN @ ELSE updates.user_id,
              !.val = IF updates.val = -1 THEN @ ELSE updates.val,
              !.time = IF updates.time = -1 THEN @ ELSE updates.time]

\* mutant: the UPDATE policy is applied to the row as found only, not to the
\* row as written
UpdateRow_usingonly(t, tbl, usersTbl, uid, id, updates) ==
  LET hit(r) == r.id = id /\ RowPolicy(uid, r)
      new == [i \in 1..Len(tbl) |-> IF hit(tbl[i]) THEN Merge(tbl[i], updates) ELSE tbl[i]]
  IN
  IF \E i \in 1..Len(tbl) : hit(tbl[i]) /\ ~ValueOk(t, new[i].val)
    THEN [data |-> None, error |-> ErrCheck, tbl |-> tbl]
  ELSE IF \E i \in 1..Len(tbl) : hit(tbl[i]) /\ ~OwnerExists(usersTbl, new[i].user_id)
    THEN [data |-> None, error |-> ErrForeignKey, tbl |-> tbl]
  ELSE LET one == Single(SelectSeq(new, LAMBDA r : r.id = id)) IN
       [data |-> one.data, error |-> one.error, tbl |-> new]

\* mutant: the updated row is read with maybeSingle(), for which no row is no error
UpdateRow_maybe(t, tbl, usersTbl, uid, id, updates) ==
  LET hit(r) == r.id = id /\ RowPolicy(uid, r)
      new == [i \in 1..Len(tbl) |-> IF hit(tbl[i]) THEN Merge(tbl[i], updates) ELSE tbl[i]]
  IN
  IF \E i \in 1..Len(tbl) : hit(tbl[i]) /\ ~RowPolicy(uid, new[i])
    THEN [data |-> None, error |-> ErrRls, tbl |-> tbl]
  ELSE IF \E i \in 1..Len(tbl) : hit(tbl[i]) /\ ~ValueOk(t, new[i].val)
    THEN [data |-> None, error |-> ErrCheck, tbl |-> tbl]
  ELSE IF \E i \in 1..Len(tbl) : hit(tbl[i]) /\ ~OwnerExists(usersTbl, new[i].user_id)
    THEN [data |-> None, error |-> ErrForeignKey, tbl |-> tbl]
  ELSE LET rows == SelectSeq(new, LAMBDA r : hit(r)) IN
       [data |-> IF rows = << >> THEN None ELSE Some(rows[1]), error |-> NoErr,
        tbl |-> new]

\* update(updates).eq('id', id).select().single()
UpdateRow(t, tbl, usersTbl, uid, id, updates) ==
  LET hit(r) == r.id = id /\ RowPolicy(uid, r)
      new == [i \in 1..Len(tbl) |-> IF hit(tbl[i]) THEN Merge(tbl[i], updates) ELSE tbl[i]]
  IN
  IF \E i \in 1..Len(tbl) : hit(tbl[i]) /\ ~RowPolicy(uid, new[i])
    THEN [data |-> None, error |-> ErrRls, tbl |-> tbl]
  ELSE IF \E i \in 1..Len(tbl) : hit(tbl[i]) /\ ~ValueOk(t, new[i].val)
    THEN [data |-> None, error |-> ErrCheck, tbl |-> tbl]
  ELSE IF \E i \in 1..Len(tbl) : hit(tbl[i]) /\ ~OwnerExists(usersTbl, new[i].user_id)
    THEN [data |-> None, error |-> ErrForeignKey, tbl |-> tbl]
  ELSE LET one == Single(SelectSeq(new, LAMBDA r : hit(r))) IN
       [data |-> one.data, error |-> one.error, tbl |-> new]

\* mutant: a delete that matches no row is answered with an error
DeleteRow_strict(tbl, uid, id) ==
  IF \E i \in 1..Len(tbl) : tbl[i].id = id /\ RowPolicy(uid, tbl[i])
    THEN [data |-> None, error |-> NoErr,
          tbl |-> SelectSeq(tbl, LAMBDA r : ~(r.id = id /\ RowPolicy(uid, r)))]
    ELSE [data |-> None, error |-> ErrNoRows, tbl |-> tbl]

\* delete().eq('id', id)
DeleteRow(tbl, uid, id) ==
  [data |-> None, error |-> NoErr,
   tbl |-> SelectSeq(tbl, LAMBDA r : ~(r.id = id /\ RowPolicy(uid, r)))]

(***************************************************************************)
(* The gateways by kind, and the table each works on.                      *)
(***************************************************************************)
CreateOps == {"createEvent", "createCheckIn", "createReflection"}
ListOps == {"getEvents", "getCheckIns", "getReflections"}
UpdateOps == {"updateEvent", "updateCheckIn", "updateReflection"}
DeleteOps == {"deleteEvent", "deleteCheckIn", "deleteReflection"}
TableOf(op) ==
  IF op \in {"createEvent", "getEvents", "updateEvent", "deleteEvent"} THEN "events"
  ELSE IF op \in {"createCheckIn", "getCheckIns", "updateCheckIn", "deleteCheckIn"}
    THEN "check_ins"
  ELSE "reflections"

(***************************************************************************)
(* The change subscription of database-examples.ts 226-253.  The backend   *)
(* publishes each change of a check_ins row to the open channel, which     *)
(* hands the callback those that pass the channel's filter.                *)
(***************************************************************************)
\* pc: no subscription, getCurrentUser awaited, or channel open; client: the handle
\* getCurrentUser works with; owner: the id in the channel's filter; handle: what
\* the caller of exampleSubscribeToCheckIns was returned, 0 for undefined; event:
\* the callback's last invocation (the kind of change, the row's id and user_id);
\* tick: flips with every invocation
NoChannel ==
  [pc |-> "none", client |-> 0, owner |-> 0, handle |-> 0, tick |-> 0, event |-> << >>]

\* mutant: the channel is opened without the filter
Deliver_nofilter(rt, kind, row) ==
  IF rt.pc = "open"
    THEN [rt EXCEPT !.tick = 1 - @, !.event = << kind, row.id, row.user_id >>]
    ELSE rt

\* 236-247: event '*' on public.check_ins, filter user_id=eq.<owner>, callback
Deliver(rt, kind, row) ==
  IF rt.pc = "open" /\ row.user_id = rt.owner
    THEN [rt EXCEPT !.tick = 1 - @, !.event = << kind, row.id, row.user_id >>]
    ELSE rt

\* the rows deleted one after the other
RECURSIVE DeliverDeletes(_, _)
DeliverDeletes(rt, rows) ==
  IF rows = << >> THEN rt
  ELSE DeliverDeletes(Deliver(rt, "DELETE", Head(rows)), Tail(rows))

\* the rows of old whose id new no longer has
Gone(old, new) ==
  SelectSeq(old, LAMBDA r : \A i \in 1..Len(new) : new[i].id /= r.id)

\* what the backend publishes for the request op on table t that it answered with sv
Publish(rt, op, t, old, sv) ==
  IF t /= "check_ins" \/ sv.error /= NoErr THEN rt
  ELSE IF op \in CreateOps THEN Deliver(rt, "INSERT", sv.data[1])
  ELSE IF op \in UpdateOps THEN Deliver(rt, "UPDATE", sv.data[1])
  ELSE IF op \in DeleteOps THEN DeliverDeletes(rt, Gone(old, sv.tbl))
  ELSE rt

\* database-examples.ts 226-230: the call starts getCurrentUser and returns
\* undefined; the subscription made later is returned to the promise chain only
exampleSubscribeToCheckIns ==
  /\ realtime.pc = "none"
  /\ CanCall
  /\ LET r == getSupabaseClient(supabaseClient, config, createCalls) IN
       /\ supabaseClient' = r.client
       /\ createCalls' = r.calls
       /\ realtime' = [NoChannel EXCEPT !.pc = "pending", !.client = Handle(r),
                                        !.handle = 0]
  /\ UNCHANGED << config, removedUsers, screen, session, authUsers, usersInsertPolicy,
                  users, tables, nextRowId, now, faults, call, last >>

\* database-examples.ts 230-252: getCurrentUser resolves; without a user nothing
\* is opened, with one the channel is
subscribeResolved ==
  /\ realtime.pc = "pending"
  /\ Ready
  /\ \E f \in Outcomes :
       /\ FaultOk(realtime.client, f)
       /\ faults' = Spend(f)
       /\ LET g == getCurrentUser(realtime.client, Known(session), f) IN
            realtime' = IF g.user = 0 THEN NoChannel
                        ELSE [realtime EXCEPT !.pc = "open", !.owner = g.user,
                                              !.client = 0]
  /\ UNCHANGED << config, removedUsers, screen, supabaseClient, createCalls, session,
                  authUsers, usersInsertPolicy, users, tables, nextRowId, now, call,
                  last >>

(***************************************************************************)
(* The gateways of database-helpers.ts.  All twelve have the shape of      *)
(* createEvent (37-60): take the handle, make one request, return          *)
(* { data, error }.  r is what getSupabaseClient gave, f the outcome of    *)
(* the round trip, sv the backend's answer, m the fallback message.        *)
(***************************************************************************)
\* mutant: the catch block returns the caught value without a fallback
Gateway_nofallback(r, f, sv, m) ==
  IF r.threw THEN [data |-> None, error |-> ErrThrown, threw |-> FALSE, net |-> 0]
  ELSE IF r.ret = 0
    THEN [data |-> None, error |-> ErrNotConfigured, threw |-> FALSE, net |-> 0]
  ELSE IF f = "error"
    THEN [data |-> None, error |-> ErrBackend, threw |-> FALSE, net |-> 1]
  ELSE IF f \in {"throw", "throwFalsy"}
    THEN [data |-> None, error |-> Caught(f), threw |-> FALSE, net |-> 1]
  ELSE IF sv.error /= NoErr
    THEN [data |-> None, error |-> sv.error, threw |-> FALSE, net |-> 1]
  ELSE [data |-> sv.data, error |-> NoErr, threw |-> FALSE, net |-> 1]

\* mutant: the handle is used without the null test, so a missing handle makes the
\* request raise inside the try block
Gateway_noguard(r, f, sv, m) ==
  IF r.threw \/ r.ret = 0
    THEN [data |-> None, error |-> ErrThrown, threw |-> FALSE, net |-> 1]
  ELSE IF f = "error"
    THEN [data |-> None, error |-> ErrBackend, threw |-> FALSE, net |-> 1]
  ELSE IF f \in {"throw", "throwFalsy"}
    THEN [data |-> None, error |-> OrFallback(Caught(f), m), threw |-> FALSE, net |-> 1]
  ELSE IF sv.error /= NoErr
    THEN [data |-> None, error |-> sv.error, threw |-> FALSE, net |-> 1]
  ELSE [data |-> sv.data, error |-> NoErr, threw |-> FALSE, net |-> 1]

\* mutant: a request that failed is issued a second time before its error is
\* returned
Gateway_retry(r, f, sv, m) ==
  IF r.threw
    THEN [data |-> None, error |-> OrFallback(ErrThrown, m), threw |-> FALSE, net |-> 0]
  ELSE IF r.ret = 0
    THEN [data |-> None, error |-> ErrNotConfigured, threw |-> FALSE, net |-> 0]
  ELSE IF f = "error"
    THEN [data |-> None, error |-> ErrBackend, threw |-> FALSE, net |-> 2]
  ELSE IF f \in {"throw", "throwFalsy"}
    THEN [data |-> None, error |-> OrFallback(Caught(f), m), threw |-> FALSE, net |-> 2]
  ELSE IF sv.error /= NoErr
    THEN [data |-> None, error |-> sv.error, threw |-> FALSE, net |-> 2]
  ELSE [data |-> sv.data, error |-> NoErr, threw |-> FALSE, net |-> 1]

\* database-helpers.ts 37-60 and the eleven functions of the same shape: r is
\* the provider's answer, f the outcome of the round trip, sv the backend's
\* answer, m the function's fallback message
Gateway(r, f, sv, m) ==
  IF r.threw
    THEN [data |-> None, error |-> OrFallback(ErrThrown, m), threw |-> FALSE, net |-> 0]
  ELSE IF r.ret = 0
    THEN [data |-> None, error |-> ErrNotConfigured, threw |-> FALSE, net |-> 0]
  ELSE IF f = "error"
    THEN [data |-> None, error |-> ErrBackend, threw |-> FALSE, net |-> 1]
  ELSE IF f \in {"throw", "throwFalsy"}
    THEN [data |-> None, error |-> OrFallback(Caught(f), m), threw |-> FALSE, net |-> 1]
  ELSE IF sv.error /= NoErr
    THEN [data |-> None, error |-> sv.error, threw |-> FALSE, net |-> 1]
  ELSE [data |-> sv.data, error |-> NoErr, threw |-> FALSE, net |-> 1]

\* one gateway call on table t with round-trip outcome f: the backend's answer sv
\* takes effect when the request reaches the backend, and the backend publishes
\* the change to the open channel; arg is what the caller passed, kept with the
\* result of a request that was answered
GatewayStep(op, t, sv, m, f, arg) ==
  /\ CanCall
  /\ LET r == getSupabaseClient(supabaseClient, config, createCalls)
         g == Gateway(r, f, sv, m)
         reached == ~r.threw /\ r.ret /= 0 /\ f = "none"
         inserted == reached /\ Len(sv.tbl) > Len(tables[t])
     IN /\ FaultOk(Handle(r), f)
        /\ faults' = Spend(f)
        /\ supabaseClient' = r.client
        /\ createCalls' = r.calls
        /\ tables' = IF reached THEN [tables EXCEPT ![t] = sv.tbl] ELSE tables
        /\ nextRowId' = IF inserted THEN nextRowId + 1 ELSE nextRowId
        /\ now' = IF inserted THEN now + 1 ELSE now
        /\ realtime' = IF reached THEN Publish(realtime, op, t, tables[t], sv) ELSE realtime
        /\ last' = [Result(op, g.data, g.error, g.threw, g.net,
                           ~reached \/ sv.error /= NoErr)
                      EXCEPT !.arg = IF reached THEN arg ELSE << >>]
  /\ UNCHANGED << config, removedUsers, session, authUsers, usersInsertPolicy, users,
                  call >>

\* a gateway called from outside the Events screen
GatewayCall(op, t, sv, m, f, arg) ==
  /\ GatewayStep(op, t, sv, m, f, arg)
  /\ UNCHANGED screen

\* a request that does not reach the backend has no answer
Unanswered(t) == [data |-> None, error |-> NoErr, tbl |-> tables[t]]

\* the round trip of a gateway call fails
GatewayFault(op, t, m) ==
  \E f \in FaultKinds : GatewayCall(op, t, Unanswered(t), m, f, << >>)

Payloads(t) == [user_id : 1..MaxIdentities, val : Vals(t), time : Times(t)]
Updates(t) ==
  [user_id : 0..MaxIdentities, val : {-1} \cup Vals(t),
   time : IF t = "reflections" THEN {-1} ELSE {-1} \cup Times(t)]
RowIds == 1..MaxRows

Create(op, t, m) ==
  /\ nextRowId <= MaxRows
  /\ \/ \E payload \in Payloads(t) :
          GatewayCall(op, t, InsertRow(t, tables[t], users, session, payload,
                                       nextRowId, now), m, "none", << payload >>)
     \/ GatewayFault(op, t, m)

Get(op, t, m) ==
  \/ \E limit \in Limits :
       GatewayCall(op, t, ListRows(t, tables[t], session, limit), m, "none", << limit >>)
  \/ GatewayFault(op, t, m)

Update(op, t, m) ==
  \/ \E id \in RowIds, updates \in Updates(t) :
       GatewayCall(op, t, UpdateRow(t, tables[t], users, session, id, updates), m, "none",
                   << id, updates >>)
  \/ GatewayFault(op, t, m)

Delete(op, t, m) ==
  \/ \E id \in RowIds :
       GatewayCall(op, t, DeleteRow(tables[t], session, id), m, "none", << id >>)
  \/ GatewayFault(op, t, m)

\* database-helpers.ts 37-140
createEvent == Create("createEvent", "events", "Failed to create event")
getEvents == Get("getEvents", "events", "Failed to fetch events")
updateEvent == Update("updateEvent", "events", "Failed to update event")
deleteEvent == Delete("deleteEvent", "events", "Failed to delete event")
\* database-helpers.ts 144-249
createCheckIn == Create("createCheckIn", "check_ins", "Failed to create check-in")
getCheckIns == Get("getCheckIns", "check_ins", "Failed to fetch check-ins")
updateCheckIn == Update("updateCheckIn", "check_ins", "Failed to update check-in")
deleteCheckIn == Delete("deleteCheckIn", "check_ins", "Failed to delete check-in")
\* database-helpers.ts 253-360
createReflection == Create("createReflection", "reflections", "Failed to create reflection")
getReflections == Get("getReflections", "reflections", "Failed to fetch reflections")
updateReflection == Update("updateReflection", "reflections", "Failed to update reflection")
deleteReflection == Delete("deleteReflection", "reflections", "Failed to delete reflection")

GatewayOps ==
  {"createEvent", "getEvents", "updateEvent", "deleteEvent",
   "createCheckIn", "getCheckIns", "updateCheckIn", "deleteCheckIn",
   "createReflection", "getReflections", "updateReflection", "deleteReflection"}

(***************************************************************************)
(* EventsScreen.tsx: the form's state (25-29), handleSave (65-138), one     *)
(* action per await, handleSkip (140-145) and the user's edits.            *)
(***************************************************************************)
\* what the user may have typed, a date picked or not, importance medium or high
EventTypes == {"", " ", "run"}
Dates == {0, 1}
Importances == {2, 3}
Platforms == {"web", "native"}

\* String.prototype.trim
Trim(v) == IF v = " " THEN "" ELSE v

\* 25-28 and 142-144: the form as useState starts it and as a reset leaves it
BlankForm == [eventType |-> "", selectedDate |-> 0, importance |-> 2]

\* pc: where handleSave stands; saving: the form as the running handleSave closed
\* over it; client and user: the handle and the user of its getCurrentUser call;
\* creates: the createEvent calls of the save in flight or last finished;
\* outcome: how that save ended; alert: the native success alert is showing
IdleSave ==
  [pc |-> "idle", saving |-> BlankForm, client |-> 0, user |-> 0, creates |-> 0,
   outcome |-> "none"]

InitialScreen(os) ==
  [os |-> os, form |-> BlankForm, isLoading |-> FALSE, alert |-> FALSE, save |-> IdleSave]

\* the Save and Skip buttons: disabled={isLoading} (262, 270); the native alert is
\* modal
ButtonsEnabled == ~screen.isLoading /\ ~screen.alert

\* 169, 184-243: onChangeText, the date picker, the importance options
edit ==
  /\ ~screen.alert
  /\ \E f \in [eventType : EventTypes, selectedDate : Dates, importance : Importances] :
       /\ Cardinality({k \in {"eventType", "selectedDate", "importance"} :
                         f[k] /= screen.form[k]}) = 1
       /\ screen' = [screen EXCEPT !.form = f]
  /\ UNCHANGED << config, removedUsers, realtime, supabaseClient, createCalls, session,
                  authUsers, usersInsertPolicy, users, tables, nextRowId, now, faults,
                  call, last >>

\* 65-77: the check of the event type, setIsLoading(true), the call of getCurrentUser
hsStart ==
  /\ screen.save.pc = "idle"
  /\ ButtonsEnabled
  /\ CanCall
  /\ nextRowId <= MaxRows
  /\ IF Trim(screen.form.eventType) = ""
       THEN /\ screen' = [screen EXCEPT !.save = [IdleSave EXCEPT !.outcome = "invalid",
                                                                 !.saving = screen.form]]
            /\ UNCHANGED << supabaseClient, createCalls >>
       ELSE LET r == getSupabaseClient(supabaseClient, config, createCalls) IN
            /\ supabaseClient' = r.client
            /\ createCalls' = r.calls
            /\ screen' = [screen EXCEPT !.isLoading = TRUE,
                            !.save = [IdleSave EXCEPT !.pc = "getUser", !.client = Handle(r),
                                                     !.saving = screen.form]]
  /\ UNCHANGED << config, removedUsers, realtime, session, authUsers, usersInsertPolicy,
                  users, tables, nextRowId, now, faults, call, last >>

\* 77-95: getCurrentUser resolves; without a user the alert, setIsLoading(false)
\* and return (the finally block sets it again), with one the call of createEvent
hsGotUser ==
  /\ screen.save.pc = "getUser"
  /\ Ready
  /\ \E f \in Outcomes :
       /\ FaultOk(screen.save.client, f)
       /\ faults' = Spend(f)
       /\ LET g == getCurrentUser(screen.save.client, Known(session), f) IN
            screen' = IF g.error /= NoErr \/ g.user = 0
              THEN [screen EXCEPT !.isLoading = FALSE,
                      !.save = [@ EXCEPT !.pc = "idle", !.client = 0, !.outcome = "nouser"]]
              ELSE [screen EXCEPT
                      !.save = [@ EXCEPT !.pc = "create", !.client = 0, !.user = g.user,
                                         !.creates = @ + 1]]
  /\ UNCHANGED << config, removedUsers, realtime, supabaseClient, createCalls, session,
                  authUsers, usersInsertPolicy, users, tables, nextRowId, now, call,
                  last >>

\* mutant: no finally block, isLoading is left as it is when createEvent returns
SaveDone_nofinally(scr, error) ==
  IF error /= NoErr
    THEN [scr EXCEPT !.save = [@ EXCEPT !.pc = "idle", !.outcome = "error"]]
  ELSE IF scr.os = "web"
    THEN [scr EXCEPT !.form = BlankForm,
                     !.save = [@ EXCEPT !.pc = "idle", !.outcome = "saved"]]
  ELSE [scr EXCEPT !.alert = TRUE,
                   !.save = [@ EXCEPT !.pc = "idle", !.outcome = "saved"]]

\* 97-137: createEvent returned { data, error }: the alert, on the web the reset
\* of the form, on native the alert whose OK resets it; finally setIsLoading(false)
SaveDone(scr, error) ==
  IF error /= NoErr
    THEN [scr EXCEPT !.isLoading = FALSE,
                     !.save = [@ EXCEPT !.pc = "idle", !.outcome = "error"]]
  ELSE IF scr.os = "web"
    THEN [scr EXCEPT !.isLoading = FALSE, !.form = BlankForm,
                     !.save = [@ EXCEPT !.pc = "idle", !.outcome = "saved"]]
  ELSE [scr EXCEPT !.isLoading = FALSE, !.alert = TRUE,
                   !.save = [@ EXCEPT !.pc = "idle", !.outcome = "saved"]]

\* 90-95: the payload handleSave builds from the form it closed over
SavePayload(sv) ==
  [user_id |-> sv.user, val |-> sv.saving.importance, time |-> sv.saving.selectedDate]

\* 90-137: createEvent resolves and handleSave runs to its end
hsCreated ==
  /\ screen.save.pc = "create"
  /\ nextRowId <= MaxRows
  /\ LET payload == SavePayload(screen.save) IN
       \/ GatewayStep("createEvent", "events",
                      InsertRow("events", tables.events, users, session, payload,
                                nextRowId, now),
                      "Failed to create event", "none", << payload >>)
       \/ \E f \in FaultKinds :
            GatewayStep("createEvent", "events", Unanswered("events"),
                        "Failed to create event", f, << >>)
  /\ screen' = SaveDone(screen, last'.error)

\* 114-123: OK on the native success alert
okPress ==
  /\ screen.alert
  /\ screen' = [screen EXCEPT !.alert = FALSE, !.form = BlankForm]
  /\ UNCHANGED << config, removedUsers, realtime, supabaseClient, createCalls, session,
                  authUsers, usersInsertPolicy, users, tables, nextRowId, now, faults,
                  call, last >>

\* 140-145
handleSkip ==
  /\ ButtonsEnabled
  /\ screen.form /= BlankForm
  /\ screen' = [screen EXCEPT !.form = BlankForm]
  /\ UNCHANGED << config, removedUsers, realtime, supabaseClient, createCalls, session,
                  authUsers, usersInsertPolicy, users, tables, nextRowId, now, faults,
                  call, last >>

handleSave == hsStart \/ hsGotUser \/ hsCreated

(***************************************************************************)
(* Deletion of an identity upstream (auth.users), and what the foreign     *)
(* keys of the migration make of it.                                       *)
(***************************************************************************)
\* mutant: the foreign keys of the owned tables lack ON DELETE CASCADE and are
\* not enforced on the delete
Cascade_none(tbls, u) == tbls

\* 12, 22, 33: user_id ... REFERENCES public.users(id) ON DELETE CASCADE
Cascade(tbls, u) ==
  [t \in Tables |-> SelectSeq(tbls[t], LAMBDA r : r.user_id /= u)]

\* 4: id ... REFERENCES auth.users(id) ON DELETE CASCADE: the identity u is
\* deleted from auth.users, its users row goes with it and the owned rows with
\* that; the channel is told of the check-ins deleted.  The client keeps the
\* session it holds.
deleteAuthUser ==
  /\ Ready
  /\ \E u \in AuthUsersNow :
       /\ removedUsers' = removedUsers \cup {u}
       /\ users' = SelectSeq(users, LAMBDA r : r.id /= u)
       /\ tables' = Cascade(tables, u)
       /\ realtime' = DeliverDeletes(realtime,
                         Gone(tables.check_ins, Cascade(tables, u).check_ins))
  /\ UNCHANGED << config, screen, supabaseClient, createCalls, session, authUsers,
                  usersInsertPolicy, nextRowId, now, faults, call, last >>

(***************************************************************************)
(* The system: a fresh install, after supabase.ts has been evaluated       *)
(* (line 54 makes the first getSupabaseClient call).                       *)
(***************************************************************************)
Configs ==
  [extraUrl : ExtraUrls, envUrl : EnvUrls, extraKey : ExtraKeys, envKey : EnvKeys]

\* builds whose process environment is unset: every parameter is build-time injected
InjectedConfigs == {c \in Configs : c.envUrl = Undefined /\ c.envKey = Undefined}

InitFor(configs, policies, platforms) ==
  /\ config \in configs
  /\ LET r == getSupabaseClient(0, config, 0) IN
       /\ supabaseClient = r.client
       /\ createCalls = r.calls
  /\ session = 0
  /\ authUsers = {}
  /\ usersInsertPolicy \in policies
  /\ users = << >>
  /\ tables = [t \in Tables |-> << >>]
  /\ nextRowId = 1
  /\ now = 1
  /\ faults = 0
  /\ call = [p \in Procs |-> IdleCall]
  /\ last = NoResult
  /\ removedUsers = {}
  /\ realtime = NoChannel
  /\ \E os \in platforms : screen = InitialScreen(os)

\* the data layer does not read Platform.OS
InitWith(configs, policies) == InitFor(configs, policies, {"web"})

Init == InitFor(Configs, BOOLEAN, Platforms)

AuthCalls ==
  \/ callSignInAnonymously
  \/ callGetCurrentUser
  \/ callSignOut

ProviderCalls ==
  \/ callGetSupabase
  \/ callIsSupabaseConfigured

GatewayCalls ==
  \/ createEvent \/ getEvents \/ updateEvent \/ deleteEvent
  \/ createCheckIn \/ getCheckIns \/ updateCheckIn \/ deleteCheckIn
  \/ createReflection \/ getReflections \/ updateReflection \/ deleteReflection

Subscription ==
  \/ exampleSubscribeToCheckIns
  \/ subscribeResolved

EventsScreen ==
  \/ edit
  \/ handleSave
  \/ okPress
  \/ handleSkip

Next ==
  \/ \E p \in Procs : initializeUser(p)
  \/ ProviderCalls
  \/ AuthCalls
  \/ callGetUserRecord
  \/ Subscription
  \/ EventsScreen
  \/ deleteAuthUser
  \/ GatewayCalls
  \/ Returned

\* the whole data layer
Spec == Init /\ [][Next]_vars

\* the provider under every configuration, with each of its single-step callers
NextConfig == ProviderCalls \/ AuthCalls \/ GatewayCalls \/ Returned
SpecConfig == InitWith(Configs, {FALSE}) /\ [][NextConfig]_vars

\* the bootstrap: both callers of initializeUser, and the session changing under them
NextBootstrap ==
  \/ \E p \in Procs : initializeUser(p)
  \/ AuthCalls
  \/ callGetUserRecord
  \/ Returned
SpecBootstrap == InitWith(InjectedConfigs, BOOLEAN) /\ [][NextBootstrap]_vars

\* the gateways, with one caller of initializeUser to create the users rows; the
\* gateways are called between two calls of initializeUser, which sees the same
\* sessions and the same tables as a call made while one is in flight
NextGateway ==
  \/ initializeUser("App")
  \/ iuTaken("App")
  \/ AuthCalls
  \/ (call["App"].pc = "idle" /\ GatewayCalls)
  \/ Returned
SpecGateway == InitWith(InjectedConfigs, BOOLEAN) /\ [][NextGateway]_vars

\* the subscription, with the one caller of initializeUser, sign-out, which lets
\* a second identity follow the first, and the calls that change check-ins
NextRealtime ==
  \/ initializeUser("App")
  \/ iuTaken("App")
  \/ callSignOut
  \/ (call["App"].pc = "idle" /\ (createCheckIn \/ updateCheckIn \/ deleteCheckIn))
  \/ Subscription
  \/ Returned
SpecRealtime == InitWith(InjectedConfigs, BOOLEAN) /\ [][NextRealtime]_vars

\* startup: the two callers of initializeUser and nothing else
NextStartup == \E p \in Procs : initializeUser(p)
SpecStartup == InitWith(InjectedConfigs, BOOLEAN) /\ [][NextStartup]_vars

\* ownership: the one caller of initializeUser, sign-out, the creates and updates
\* of the three tables, and identities deleted upstream
NextOwnership ==
  \/ initializeUser("App")
  \/ iuTaken("App")
  \/ callSignOut
  \/ (call["App"].pc = "idle" /\
        (\/ createEvent \/ createCheckIn \/ createReflection
         \/ updateEvent \/ updateCheckIn \/ updateReflection))
  \/ (call["App"].pc = "idle" /\ deleteAuthUser)
  \/ Returned
SpecOwnership == InitWith(InjectedConfigs, BOOLEAN) /\ [][NextOwnership]_vars

\* the Events screen on both platforms, with the one caller of initializeUser
NextScreen ==
  \/ initializeUser("App")
  \/ iuTaken("App")
  \/ EventsScreen
  \/ Returned
SpecScreen == InitFor(InjectedConfigs, BOOLEAN, Platforms) /\ [][NextScreen]_vars

(***************************************************************************)
(* Properties.  The configuration as a reader of the two sources sees it:  *)
(* a parameter is the build-time injected value when that is present and   *)
(* non-empty, and the process-environment value otherwise.                 *)
(***************************************************************************)
Present(v) == v /= Undefined /\ v /= ""
Resolved(extra, env) == IF Present(extra) THEN extra ELSE env
ResolvedUrl == Resolved(config.extraUrl, config.envUrl)
ResolvedKey == Resolved(config.extraKey, config.envKey)
ConfigComplete == Present(ResolvedUrl) /\ Present(ResolvedKey)
Malformed == ResolvedUrl = "not-a-url"

\* C9 as stated: isSupabaseConfigured is true iff both parameters are present and
\* non-empty, a parameter being the build-time injected value whenever that value
\* is present (defined), and the process-environment value otherwise.
C9_PresentInjectedValueWins ==
  LET stated(extra, env) == IF extra /= Undefined THEN extra ELSE env IN
  last.op = "isSupabaseConfigured" =>
    last.data = Some(/\ Present(stated(config.extraUrl, config.envUrl))
                     /\ Present(stated(config.extraKey, config.envKey)))

\* C9 amended: isSupabaseConfigured returns true iff both resolved parameters are
\* present and non-empty, a parameter resolving to the build-time injected value
\* when that is present and non-empty and to the process-environment value
\* otherwise; the call does not raise, constructs no handle and memoizes none.
C9_IsConfigured ==
  [][last'.op = "isSupabaseConfigured" =>
       /\ last'.data = Some(ConfigComplete)
       /\ ~last'.threw
       /\ supabaseClient' = supabaseClient
       /\ createCalls' = createCalls]_vars

\* C9 witness: an empty injected URL falls through to the environment's
C9_Witness ==
  /\ last.op = "isSupabaseConfigured"
  /\ config.extraUrl = "" /\ config.envUrl /= Undefined
  /\ last.data = Some(TRUE)

\* C7: with the configuration incomplete at the first getSupabase call, that call
\* and every later one return null without raising, and construction is never
\* attempted, on the first call or on a later one.
C7_IncompleteAlwaysAbsent ==
  ~ConfigComplete =>
    /\ supabaseClient = 0
    /\ createCalls = 0
    /\ (last.op = "getSupabase" => last.data = None /\ ~last.threw)

\* C7 witness: a URL without a key, and getSupabase has answered
C7_Witness ==
  /\ Present(ResolvedUrl) /\ ~Present(ResolvedKey)
  /\ last.op = "getSupabase" /\ last.data = None

\* C8: getSupabase never raises; when createClient fails on a malformed URL the
\* failure is caught, the call returns null and no handle is memoized.
C8_ProviderNeverThrows ==
  /\ (last.op = "getSupabase" => ~last.threw)
  /\ (ConfigComplete /\ Malformed =>
        /\ supabaseClient = 0
        /\ (last.op = "getSupabase" => last.data = None))

\* C8 witness: createClient has failed at module load and again in a call
C8_Witness ==
  /\ ConfigComplete /\ Malformed
  /\ last.op = "getSupabase" /\ last.data = None
  /\ createCalls >= 2

\* C6 as stated: with complete configuration createClient is invoked exactly
\* once, whatever calls are made, and the handle it made is the one returned.
C6_CompleteConstructsOnce ==
  ConfigComplete =>
    /\ createCalls = 1
    /\ (last.op = "getSupabase" /\ supabaseClient /= 0 => last.data = Some(supabaseClient))

\* C6 amended: with complete configuration whose URL createClient accepts,
\* createClient is invoked exactly once (at module load), every getSupabase call,
\* direct or inside an auth helper or a gateway, returns that one handle, and the
\* memoized handle is never replaced or cleared.
C6_AcceptedConstructsOnce ==
  ConfigComplete /\ ~Malformed =>
    /\ createCalls = 1
    /\ supabaseClient = 1
    /\ (last.op = "getSupabase" => last.data = Some(1) /\ ~last.threw)

\* C6 witness: a call after the construction returns the handle made then
C6_Witness ==
  /\ ConfigComplete /\ ~Malformed
  /\ last.op = "getSupabase" /\ last.data = Some(1)
  /\ createCalls = 1

\* C5: with the configuration incomplete, initializeUser returns at its first
\* step with data null and error null, without raising: it never waits on the
\* identity provider, issues no request, and the users table stays untouched.
C5_IncompleteBootstrapNoOp ==
  ~ConfigComplete =>
    /\ \A p \in Procs :
         /\ call[p].pc \in {"idle", "done"}
         /\ call[p].data = None /\ call[p].error = NoErr
         /\ ~call[p].threw /\ call[p].net = 0 /\ call[p].inserts = 0
    /\ users = << >>
    /\ authUsers = {}

\* C5 witness: an unconfigured bootstrap has returned
C5_Witness ==
  /\ ~ConfigComplete
  /\ call["App"].pc = "done" /\ call["App"].data = None /\ call["App"].error = NoErr

\* C3: whatever initializeUser calls interleave, the users table holds at most one
\* row per identity, every row belongs to an existing identity, and a row that a
\* call inserted has the id of the identity the insert was authenticated as.
C3_OneRowPerIdentity ==
  /\ \A i, j \in 1..Len(users) : users[i].id = users[j].id => i = j
  /\ \A i \in 1..Len(users) : users[i].id \in authUsers
  /\ \A p \in Procs :
       call[p].pc = "done" /\ call[p].inserts > 0 /\ call[p].data /= None =>
         /\ call[p].insertUid /= 0
         /\ call[p].data[1].id = call[p].insertUid
         /\ \E i \in 1..Len(users) : users[i] = call[p].data[1]

\* C3 witness: two identities have a row each, the second just inserted
C3_Witness ==
  /\ Len(users) = 2
  /\ \E p \in Procs :
       call[p].pc = "done" /\ call[p].inserts > 0 /\ call[p].data /= None

\* C1: a call that read 'no users row' and whose insert then met the uniqueness
\* conflict, the row having been inserted by a concurrent call in between,
\* returns the now-existing row with a null error, never the conflict error.
C1_ConflictIsSuccess ==
  \A p \in Procs :
    call[p].pc = "done" /\ call[p].noRow /\ call[p].insertError = ErrUnique =>
      /\ call[p].error = NoErr
      /\ call[p].data /= None
      /\ call[p].data[1].id = call[p].userId

\* C2: two initializeUser calls made one after the other for the same identity,
\* with configuration complete, no round trip failing and the session unchanged,
\* both return the same users row with a null error, and no more than one insert
\* was issued across the two.
C2_SequentialSameRow ==
  \A p, q \in Procs :
    ( /\ p /= q
      /\ call[p].pc = "done" /\ call[q].pc = "done"
      /\ call[p].solo /\ call[q].solo
      /\ ~call[p].faulted /\ ~call[q].faulted
      /\ call[p].userId /= 0 /\ call[p].userId = call[q].userId
      /\ session = call[p].userId )
    => /\ call[p].error = NoErr /\ call[q].error = NoErr
       /\ call[p].data /= None /\ call[p].data = call[q].data
       /\ call[p].inserts + call[q].inserts <= 1
       /\ Len(users) >= 1

\* C4: with the URL or the key absent, every gateway function returns null data
\* and the not-configured error without raising, initializeUser returns without
\* raising, and none of them issues a request.
C4_UnconfiguredNoNetwork ==
  ~ConfigComplete =>
    /\ last.op \in GatewayOps =>
         /\ last.data = None /\ last.error = ErrNotConfigured
         /\ ~last.threw /\ last.net = 0
    /\ call["App"].pc \in {"idle", "done"}
    /\ ~call["App"].threw /\ call["App"].net = 0
    /\ \A t \in Tables : tables[t] = << >>

\* C4 witness: unconfigured, a gateway has answered without a request
C4_Witness ==
  /\ ~ConfigComplete
  /\ last.op \in GatewayOps /\ last.error = ErrNotConfigured
  /\ last.data = None /\ last.net = 0

\* C10: no gateway function raises; a fault, reported by the backend or thrown
\* during the call, comes back as a non-null error with null data, a call
\* without fault comes back with a null error, and no result carries both data
\* and an error.
C10_GatewayResultPair ==
  last.op \in GatewayOps =>
    /\ ~last.threw
    /\ ~(last.data /= None /\ last.error /= NoErr)
    /\ (last.fault => last.error /= NoErr /\ last.data = None)
    /\ (~last.fault => last.error = NoErr)

\* C10 witness: createEvent caught a thrown value that carried nothing and
\* returned its own message as the error
C10_Witness ==
  /\ last.op = "createEvent"
  /\ last.fault /\ last.net = 1
  /\ last.error = "Failed to create event"
  /\ last.data = None

\* C11: a call of initializeUser that found no authenticated identity and whose
\* request for an anonymous identity failed returns null data with a non-null
\* error, which tells it from the not-configured outcome (null, null), and has
\* issued no lookup of and no insert into the users table.
C11_SignInFailurePropagated ==
  \A p \in Procs :
    call[p].pc = "done" /\ call[p].signInFailed =>
      /\ call[p].data = None
      /\ call[p].error /= NoErr
      /\ call[p].reads = 0 /\ call[p].inserts = 0

\* C12: a call of initializeUser made alone for an authenticated identity that
\* has no users row (the lookup answered 'no row', no round trip failed, the
\* insert ran as that identity) returns the inserted row, carrying the
\* identity's id and the server's timestamps, with a null error, and the users
\* table then holds that row.
C12_InsertsMissingRow ==
  \A p \in Procs :
    ( /\ call[p].pc = "done" /\ call[p].solo
      /\ call[p].noRow /\ ~call[p].faulted
      /\ call[p].userId /= 0 /\ call[p].insertUid = call[p].userId )
    => /\ call[p].error = NoErr
       /\ call[p].data /= None
       /\ call[p].data[1].id = call[p].userId
       /\ call[p].data[1].created_at > 0
       /\ call[p].data[1].updated_at = call[p].data[1].created_at
       /\ \E i \in 1..Len(users) : users[i] = call[p].data[1]

\* C13: when the users row of the resolved identity exists and the lookup
\* completes, initializeUser returns that row with a null error and issues no
\* insert and no update: the users table, and so the row's created_at and
\* updated_at, are the same after the call as before.
C13_ExistingRowUntouched ==
  [][\A p \in Procs :
       /\ ( /\ call[p].pc = "select" /\ call'[p].pc /= "select"
            /\ faults' = faults
            /\ session = call[p].userId
            /\ \E i \in 1..Len(users) : users[i].id = call[p].userId )
          => /\ call'[p].pc = "done"
             /\ call'[p].error = NoErr
             /\ call'[p].data /= None
       /\ (call[p].pc = "select" /\ call'[p].pc = "done" /\ call'[p].data /= None)
          => /\ users' = users
             /\ call'[p].inserts = 0
             /\ call'[p].data[1].id = call[p].userId
             /\ \E i \in 1..Len(users) : users[i] = call'[p].data[1]]_vars

\* C13 witness: a call has returned the row an earlier call inserted
C13_Witness ==
  \E p \in Procs :
    /\ call[p].pc = "done" /\ call[p].inserts = 0 /\ call[p].reads = 1
    /\ call[p].data /= None
    /\ \E i \in 1..Len(users) : users[i] = call[p].data[1]

\* the places of row r in the sequence rows
Places(rows, r) == {i \in 1..Len(rows) : rows[i] = r}
\* a gateway call that reached the backend: its arguments are on record
Answered(ops) == last.op \in ops /\ last.arg /= << >>

\* C14: for each of the three entities, a create that succeeds returns a row
\* with a server-generated id and created_at, owned by the caller and carrying
\* every supplied field as supplied (an event created with time null has time
\* null; a check-in created without a timestamp gets the server's), and the
\* table then holds that row exactly once; a list without limit returns every
\* row of the caller's exactly once, so a list that follows the create by the
\* same identity contains the created row exactly once.
C14_CreateThenList ==
  /\ Answered(CreateOps) /\ last.data /= None =>
       LET row == last.data[1]
           payload == last.arg[1]
           t == TableOf(last.op)
       IN /\ row.id > 0 /\ row.created_at > 0
          /\ row.user_id = payload.user_id /\ row.user_id = session
          /\ row.val = payload.val
          /\ row.time = IF t = "check_ins" /\ payload.time = 0
                          THEN row.created_at ELSE payload.time
          /\ Cardinality(Places(tables[t], row)) = 1
          /\ Cardinality({i \in 1..Len(tables[t]) : tables[t][i].id = row.id}) = 1
  /\ Answered(ListOps) /\ last.arg[1] = -1 /\ last.data /= None =>
       LET t == TableOf(last.op) IN
       /\ \A i \in 1..Len(tables[t]) :
            tables[t][i].user_id = session =>
              Cardinality(Places(last.data[1], tables[t][i])) = 1
       /\ \A i \in 1..Len(last.data[1]) :
            Cardinality(Places(tables[t], last.data[1][i])) = 1

\* C14 witness: the list after a create shows the event with time null, owned by
\* the caller
C14_Witness ==
  /\ Answered({"getEvents"}) /\ last.arg[1] = -1 /\ last.data /= None
  /\ Len(last.data[1]) = 1
  /\ last.data[1][1].time = 0 /\ last.data[1][1].user_id = session
  /\ last.data[1][1].id > 0 /\ last.data[1][1].created_at > 0

\* C15: for every limit N >= 0, a list returns at most N rows; the rows come in
\* descending order of created_at (events, reflections) or timestamp
\* (check-ins), and a list without limit returns every row visible to the
\* caller.
C15_ListAtMostN ==
  Answered(ListOps) /\ last.data /= None =>
    LET t == TableOf(last.op)
        n == last.arg[1]
        rows == last.data[1]
    IN /\ n >= 0 => Len(rows) <= n
       /\ \A i \in 1..Len(rows) : \A j \in 1..Len(rows) :
            i < j => OrderKey(t, rows[i]) >= OrderKey(t, rows[j])
       /\ n = -1 =>
            Len(rows) = Cardinality({i \in 1..Len(tables[t]) : tables[t][i].user_id = session})

\* C16: an update addressed to the id of a row visible to the caller, with a
\* payload the backend accepts, returns the updated row; that row, as stored,
\* has each field the payload names equal to the payload's value and every other
\* field as before (a field left out is not nulled), and no other row of any
\* table changes.  An update that returns no row changes nothing.
C16_UpdateFrame ==
  [][(last'.op \in UpdateOps /\ last'.arg /= << >>) =>
       LET t == TableOf(last'.op)
           id == last'.arg[1]
           u == last'.arg[2]
           mine == {i \in 1..Len(tables[t]) :
                      tables[t][i].id = id /\ tables[t][i].user_id = session}
       IN /\ Len(tables'[t]) = Len(tables[t])
          /\ \A i \in 1..Len(tables[t]) :
               tables[t][i].id /= id => tables'[t][i] = tables[t][i]
          /\ \A o \in Tables \ {t} : tables'[o] = tables[o]
          /\ last'.data = None => tables' = tables
          /\ last'.data /= None =>
               \E i \in mine :
                 LET old == tables[t][i]
                     new == tables'[t][i]
                 IN /\ last'.data = Some(new)
                    /\ new.id = old.id /\ new.created_at = old.created_at
                    /\ new.val = IF u.val = -1 THEN old.val ELSE u.val
                    /\ new.time = IF u.time = -1 THEN old.time ELSE u.time
                    /\ new.user_id = IF u.user_id = 0 THEN old.user_id ELSE u.user_id
          /\ ( /\ mine /= {} /\ session /= 0
               /\ u.user_id \in {0, session}
               /\ (u.val = -1 \/ ValueOk(t, u.val)) )
             => last'.data /= None /\ last'.error = NoErr]_vars

\* C16 witness: an update naming only the time of a check-in returned the row
\* with its energy kept
C16_Witness ==
  /\ Answered({"updateCheckIn"}) /\ last.data /= None
  /\ last.arg[2].val = -1 /\ last.arg[2].user_id = 0 /\ last.arg[2].time = 1
  /\ last.data[1].val = 10 /\ last.data[1].time = 1
  /\ last.data[1].created_at > 1

\* C17: a delete by id returns a null error whether or not a row has that id;
\* afterwards no row visible to the caller has the id, and every row with
\* another id, in this table and in the others, is still there.
C17_DeleteById ==
  [][(last'.op \in DeleteOps /\ last'.arg /= << >>) =>
       LET t == TableOf(last'.op)
           id == last'.arg[1]
       IN /\ last'.error = NoErr /\ last'.data = None
          /\ \A i \in 1..Len(tables'[t]) :
               ~(tables'[t][i].id = id /\ tables'[t][i].user_id = session)
          /\ \A i \in 1..Len(tables[t]) :
               tables[t][i].id /= id =>
                 Cardinality(Places(tables'[t], tables[t][i])) = 1
          /\ \A i \in 1..Len(tables'[t]) :
               Cardinality(Places(tables[t], tables'[t][i])) = 1
          /\ \A o \in Tables \ {t} : tables'[o] = tables[o]]_vars

\* C17 witness: a delete of an id already deleted, next to a row that stays
C17_Witness ==
  /\ Answered({"deleteEvent"}) /\ last.error = NoErr
  /\ last.arg[1] = 1 /\ nextRowId > 2
  /\ Len(tables.events) = 1 /\ tables.events[1].id = 2
  /\ tables.check_ins = << >> /\ tables.reflections = << >>

\* every row of the three tables, with its table
AllRows == UNION {{<< t, tables[t][i] >> : i \in 1..Len(tables[t])} : t \in Tables}

\* C18: an identity neither lists nor modifies another identity's rows: a list
\* returns only rows whose user_id is the caller's, and no step, in particular
\* no update or delete addressed to the id of such a row, changes or removes a
\* row whose user_id is not the caller's.  The gateways filter nothing
\* themselves; the scoping is the row-level policies'.
C18_OwnRowsOnly ==
  /\ [](Answered(ListOps) /\ last.data /= None =>
          \A i \in 1..Len(last.data[1]) :
            last.data[1][i].user_id = session /\ session /= 0)
  /\ [][\A t \in Tables : \A i \in 1..Len(tables[t]) :
          tables[t][i].user_id /= session =>
            /\ i <= Len(tables'[t])
            /\ tables'[t][i] = tables[t][i]]_vars

\* C18 witness: identity 2 addressed an update or a delete to the row of
\* identity 1, which is still there
C18_Witness ==
  /\ Answered(UpdateOps \cup DeleteOps)
  /\ session = 2
  /\ \E i \in 1..Len(tables[TableOf(last.op)]) :
       /\ tables[TableOf(last.op)][i].id = last.arg[1]
       /\ tables[TableOf(last.op)][i].user_id = 1

\* C19: every row of events, check_ins and reflections has the user_id of the
\* identity that inserted it: a create carrying another user_id than the
\* caller's is refused, and no step changes the user_id of a row.
C19_OwnerIsCreator ==
  /\ [](\A tr \in AllRows : tr[2].user_id = tr[2].creator /\ tr[2].creator /= 0)
  /\ [](Answered(CreateOps) /\ last.arg[1].user_id /= session =>
          last.data = None /\ last.error /= NoErr)
  /\ [][\A t \in Tables : \A i \in 1..Len(tables[t]) : \A j \in 1..Len(tables'[t]) :
          tables'[t][j].id = tables[t][i].id =>
            tables'[t][j].user_id = tables[t][i].user_id]_vars

\* C19 witness: an update that would move the caller's row to another identity
\* that has a users row was refused by row security
C19_Witness ==
  /\ Answered(UpdateOps) /\ session /= 0
  /\ last.arg[2].user_id \notin {0, session}
  /\ OwnerExists(users, last.arg[2].user_id)
  /\ last.error = ErrRls /\ last.data = None
  /\ \E i \in 1..Len(tables[TableOf(last.op)]) :
       /\ tables[TableOf(last.op)][i].id = last.arg[1]
       /\ tables[TableOf(last.op)][i].user_id = session

\* C20: createCheckIn with energy 0 or 11 reaches the backend and returns null
\* data and an error, the check violation when the row is otherwise
\* acceptable, and stores nothing; with energy in 1..10 and the other fields
\* valid it succeeds, the energy stored as passed; every stored check-in has
\* 1 <= energy <= 10, whatever createCheckIn and updateCheckIn calls were made.
C20_EnergyRange ==
  /\ [](\A i \in 1..Len(tables.check_ins) :
          tables.check_ins[i].val >= 1 /\ tables.check_ins[i].val <= 10)
  /\ [](Answered({"createCheckIn"}) =>
          LET payload == last.arg[1]
              valid == payload.user_id = session /\ OwnerExists(users, session)
          IN /\ payload.val \in {0, 11} =>
                  /\ last.data = None /\ last.error /= NoErr /\ last.net = 1
                  /\ valid => last.error = ErrCheck
             /\ (payload.val \in 1..10 /\ valid) =>
                  /\ last.error = NoErr /\ last.data /= None
                  /\ last.data[1].val = payload.val)
  /\ [][last'.op = "createCheckIn" /\ last'.data = None => tables' = tables]_vars

\* C20 witness: energy 11 was refused with the check violation, energy 10 is stored
C20_Witness ==
  /\ Answered({"createCheckIn"})
  /\ last.arg[1].val = 11 /\ last.arg[1].user_id = session
  /\ last.error = ErrCheck /\ last.data = None
  /\ Len(tables.check_ins) = 1 /\ tables.check_ins[1].val = 10

\* C21: createReflection with empty content reaches the backend and returns null
\* data and an error, the check violation when the row is otherwise acceptable,
\* and stores nothing; with non-empty content and the other fields valid it
\* succeeds; every stored reflection has content of length greater than 0,
\* whatever createReflection and updateReflection calls were made.
C21_ContentNonEmpty ==
  /\ [](\A i \in 1..Len(tables.reflections) : tables.reflections[i].val > 0)
  /\ [](Answered({"createReflection"}) =>
          LET payload == last.arg[1]
              valid == payload.user_id = session /\ OwnerExists(users, session)
          IN /\ payload.val = 0 =>
                  /\ last.data = None /\ last.error /= NoErr /\ last.net = 1
                  /\ valid => last.error = ErrCheck
             /\ (payload.val > 0 /\ valid) =>
                  /\ last.error = NoErr /\ last.data /= None
                  /\ last.data[1].val = payload.val)
  /\ [][last'.op = "createReflection" /\ last'.data = None => tables' = tables]_vars
  /\ [][(last'.op = "updateReflection" /\ last'.arg /= << >> /\ last'.arg[2].val = 0) =>
          /\ tables' = tables
          /\ last'.data = None /\ last'.error /= NoErr]_vars

\* C21, the update's case reached: an update emptying the content of the caller's stored reflection
\* was refused with the check violation
C21_UpdateRefused ==
  /\ Answered({"updateReflection"})
  /\ last.arg[2].val = 0 /\ last.arg[2].user_id = 0
  /\ last.error = ErrCheck /\ last.data = None
  /\ \E i \in 1..Len(tables.reflections) :
       /\ tables.reflections[i].id = last.arg[1]
       /\ tables.reflections[i].user_id = session
       /\ tables.reflections[i].val = 1

\* C21 witness: an empty create refused with the check violation beside a stored
\* reflection
C21_Witness ==
  /\ Answered({"createReflection"})
  /\ last.arg[1].val = 0 /\ last.arg[1].user_id = session
  /\ last.error = ErrCheck /\ last.data = None
  /\ Len(tables.reflections) = 1

\* the errors the backend answers a request with
BackendErrors == {ErrRls, ErrCheck, ErrForeignKey, ErrNoRows}

\* C22: a gateway call issues exactly one request when a handle is available and
\* none otherwise, whatever the outcome: a request the backend refused comes
\* back with the backend's error and null data, a request that failed in
\* transport comes back with an error, neither was issued twice, a call that
\* returns an error leaves the tables as they were, and the rows a list returns
\* are rows the table holds when the list is answered (nothing is served from
\* an earlier answer).
C22_OneRequestPerCall ==
  /\ [](last.op \in GatewayOps =>
          /\ last.net = IF supabaseClient /= 0 THEN 1 ELSE 0
          /\ (last.arg /= << >> /\ last.error /= NoErr) =>
               last.error \in BackendErrors /\ last.data = None
          /\ (last.arg = << >> /\ last.net = 1) =>
               last.error /= NoErr /\ last.data = None
          /\ (Answered(ListOps) /\ last.data /= None) =>
               \A i \in 1..Len(last.data[1]) :
                 Places(tables[TableOf(last.op)], last.data[1][i]) /= {})
  /\ [][last'.op \in GatewayOps /\ last'.error /= NoErr =>
          tables' = tables /\ nextRowId' = nextRowId]_vars

\* C22 witness: createEvent for an identity without a users row was refused by the
\* foreign key, after one request
C22_Witness ==
  /\ Answered({"createEvent"})
  /\ last.error = ErrForeignKey /\ last.data = None
  /\ last.net = 1 /\ supabaseClient /= 0

\* C22, the transport's case reached: a list whose round trip failed, after one
\* request
C22_TransportFault ==
  /\ last.op = "getReflections" /\ last.arg = << >>
  /\ last.net = 1 /\ last.error = ErrBackend /\ last.data = None

\* the auth helpers and getUserRecord, called on their own
HelperOps == {"signInAnonymously", "getCurrentUser", "signOut", "getUserRecord"}

C23_RecordLookupThrew ==
  /\ last.op = "getUserRecord" /\ last.net = 2
  /\ last.data = None /\ last.error = NoErr

\* the callback ran in this step, for a change of kind k to row r
Invoked(k, r) ==
  /\ realtime'.tick /= realtime.tick
  /\ realtime'.event = << k, r.id, r.user_id >>

\* C24, the channel's part: while the channel is open the callback is invoked for
\* every insert, update and delete of a check-in whose user_id is the owner the
\* channel was opened for, and for no other row.
C24_DeliveryFiltered ==
  [][realtime.pc = "open" =>
       LET old == tables.check_ins
           new == tables'.check_ins
           mine(r) == r.user_id = realtime.owner
       IN /\ \A i \in 1..Len(new) :
               (mine(new[i]) /\ \A j \in 1..Len(old) : old[j].id /= new[i].id)
                 => Invoked("INSERT", new[i])
          /\ (last'.op = "updateCheckIn" /\ last'.data /= None /\ mine(last'.data[1]))
               => Invoked("UPDATE", last'.data[1])
          /\ \A j \in 1..Len(old) :
               (mine(old[j]) /\ \A i \in 1..Len(new) : new[i].id /= old[j].id)
                 => Invoked("DELETE", old[j])
          /\ realtime'.tick /= realtime.tick => realtime'.event[3] = realtime.owner]_vars

\* C24: the subscription for check-ins invokes the callback for every change of
\* a row of the subscribing owner and for no row of another owner, and the
\* caller of the subscribing function holds a handle to the channel it opened
\* (with which to dispose of it).
C24_SubscriptionContract ==
  /\ C24_DeliveryFiltered
  /\ [](realtime.pc = "open" => realtime.handle /= 0)

\* C24, reached: the channel of identity 1 is open, identity 2 has inserted a
\* check-in and the callback was not invoked for it
C24_OtherOwnerSilent ==
  /\ realtime.pc = "open" /\ realtime.owner = 1
  /\ Answered({"createCheckIn"}) /\ last.data /= None
  /\ last.data[1].user_id = 2
  /\ realtime.event = << >>

\* C24, reached: the callback got the delete of the owner's check-in
C24_OwnDeleteDelivered ==
  /\ realtime.pc = "open" /\ realtime.owner = session
  /\ Answered({"deleteCheckIn"})
  /\ realtime.event = << "DELETE", last.arg[1], session >>

\* C25: deleting an identity removes its users row and every events, check_ins
\* and reflections row it owns, and no row of another owner; in every state each
\* owned row's user_id is the id of a users row and each users row's id that of
\* an identity; a create for an owner without a users row is refused.
C25_CascadeAndOwnerExists ==
  /\ [](\A tr \in AllRows : OwnerExists(users, tr[2].user_id))
  /\ [](\A i \in 1..Len(users) : users[i].id \in AuthUsersNow)
  /\ [](Answered(CreateOps) /\ ~OwnerExists(users, last.arg[1].user_id) =>
          last.data = None /\ last.error /= NoErr)
  /\ [][\A u \in removedUsers' \ removedUsers :
          /\ \A i \in 1..Len(users') : users'[i].id /= u
          /\ \A i \in 1..Len(users) :
               users[i].id /= u => Cardinality(Places(users', users[i])) = 1
          /\ \A t \in Tables :
               /\ \A i \in 1..Len(tables'[t]) : tables'[t][i].user_id /= u
               /\ \A i \in 1..Len(tables[t]) :
                    tables[t][i].user_id /= u =>
                      Cardinality(Places(tables'[t], tables[t][i])) = 1]_vars

\* C25 witness: two rows were created, identity 1 is deleted, and the one row
\* left is identity 2's
C25_Witness ==
  /\ removedUsers = {1}
  /\ nextRowId = 3
  /\ Cardinality(AllRows) = 1
  /\ \A tr \in AllRows : tr[2].user_id = 2
  /\ Len(users) = 1 /\ users[1].id = 2

\* C25, reached: the session of a deleted identity asked for a create and the
\* foreign key refused it
C25_CreateAfterRemoval ==
  /\ session \in removedUsers
  /\ Answered(CreateOps) /\ last.arg[1].user_id = session
  /\ last.error = ErrForeignKey /\ last.data = None

\* C26: of two initializeUser calls that ran concurrently, no round trip of
\* either failing, at most one made an anonymous identity; the users row either
\* call looks up or inserts is that of the session current at the time; and in
\* the database that lets an identity insert its own row, such a call returns
\* an error only from the insert's uniqueness conflict.
C26_ConcurrentBootstrap ==
  /\ \A p, q \in Procs :
       (p /= q /\ ~call[p].solo /\ ~call[q].solo /\ ~call[p].faulted /\ ~call[q].faulted)
         => ~(call[p].created /= 0 /\ call[q].created /= 0)
  /\ \A p \in Procs :
       (~call[p].solo /\ ~call[p].faulted /\ call[p].userId /= 0)
         => /\ call[p].userId = session
            /\ (usersInsertPolicy /\ call[p].pc = "done" /\ call[p].error /= NoErr)
                 => call[p].insertError = ErrUnique

\* C27: initializeUser requests an insert into users only after its lookup
\* answered 'no row'; a call whose lookup failed issues no insert and returns an
\* error.
C27_InsertOnlyAfterNoRow ==
  \A p \in Procs :
    /\ call[p].inserts > 0 => call[p].noRow
    /\ (call[p].pc = "done" /\ call[p].reads > 0 /\ ~call[p].noRow /\ call[p].data = None)
         => call[p].inserts = 0 /\ call[p].error /= NoErr

\* C28: initializeUser returns (data null, error null) only when the
\* configuration is incomplete; with both parameters present exactly one of data
\* and error is non-null, whatever fails on the way.
C28_NullPairOnlyUnconfigured ==
  \A p \in Procs :
    call[p].pc = "done" =>
      IF ConfigComplete
        THEN (call[p].data = None) /= (call[p].error = NoErr)
        ELSE call[p].data = None /\ call[p].error = NoErr

C29_DeleteOfNothing ==
  /\ Answered(DeleteOps) /\ last.error = NoErr
  /\ \A tr \in AllRows : tr[2].id /= last.arg[1]
  /\ AllRows /= {}

\* C30: handleSave calls createEvent at most once per save, and only with a
\* non-empty trimmed event type and a user from getCurrentUser; isLoading is true
\* exactly while a save is in flight, so false again however the save ended;
\* handleSave changes the form only by resetting it after createEvent returned no
\* error (at once on the web, at the alert's OK on native), and leaves it as it
\* is after a refused, failed or userless save.
C30_HandleSave ==
  /\ [](/\ screen.save.creates <= 1
        /\ screen.save.creates = 1 =>
             Trim(screen.save.saving.eventType) /= "" /\ screen.save.user /= 0
        /\ screen.save.outcome \in {"invalid", "nouser"} => screen.save.creates = 0
        /\ screen.isLoading <=> screen.save.pc /= "idle"
        /\ screen.alert => screen.save.outcome = "saved" /\ screen.os = "native")
  /\ [][last'.op = "createEvent" /\ last.op /= "createEvent" =>
          /\ screen.save.pc = "create" /\ screen'.save.pc = "idle"
          /\ screen.save.creates = 1 /\ screen'.save.creates = 1
          /\ (last'.error = NoErr <=> screen'.save.outcome = "saved")]_vars
  /\ [][(screen'.save /= screen.save /\ screen'.form /= screen.form) =>
          /\ screen'.form = BlankForm
          /\ screen'.save.outcome = "saved" /\ screen.os = "web"
          /\ last'.op = "createEvent" /\ last'.error = NoErr /\ last'.data /= None]_vars
  /\ [][(screen.alert /\ ~screen'.alert) =>
          screen'.form = BlankForm /\ screen.save.outcome = "saved"]_vars

\* C30 witness: on native the save has succeeded, isLoading is false again, and the
\* form waits for the alert's OK to be reset
C30_Witness ==
  /\ screen.os = "native" /\ screen.alert
  /\ ~screen.isLoading /\ screen.save.pc = "idle"
  /\ screen.save.creates = 1 /\ screen.save.outcome = "saved"
  /\ screen.form.eventType = "run"
  /\ Len(tables.events) = 1

\* C30, reached: createEvent returned an error; isLoading is false and the form
\* is as typed
C30_ErrorKeepsForm ==
  /\ screen.save.outcome = "error" /\ screen.save.creates = 1
  /\ ~screen.isLoading
  /\ last.op = "createEvent" /\ last.error /= NoErr
  /\ screen.form = screen.save.saving

====
